---- MODULE Spec2Model ----
(***************************************************************************)
(* A model of the PCIe simulator: the descriptor ring of the kernel        *)
(* driver (kernel/ringbuffer.c), the statistics kept by the three          *)
(* backends (kernel/dma.c, sim/linux_sim.c, sim/windows_sim.c) and the     *)
(* locking around them.                                                    *)
(*                                                                         *)
(* Integers are TLC integers: every u32/u64 value the model reaches stays  *)
(* far below 2^31, so no C wrap-around is reachable within the bounds.     *)
(***************************************************************************)
EXTENDS Integers, Sequences, FiniteSets, TLC

VARIABLES
    ring,       \* struct pcie_sim_ring
    now,        \* the monotonic clock read by ktime_get_ns()
    subLog,     \* history: <<length, timestamp>> of every submit that returned 0
    compLog,    \* history: what every complete that returned 0 gave back
    rlast,      \* history: the last ring call, its return value and outputs
    backend,    \* which backend the build runs: "kernel", "linux" or "windows"
    stats,      \* struct pcie_sim_stats of device 0
    seen,       \* history: the calls made since the statistics were last reset
    tlast,      \* history: the last library/ioctl call, its arguments and result
    mutex,      \* owner of the device mutex, or MutexFree
    thr,        \* per caller thread: position in its transfer and its locals
    mon,        \* the monitoring thread: position, and the snapshot it is taking
    acct,       \* history: the records completed since the last reset
    trio,       \* the statistics block of each backend when all three are fed alike
    tstep,      \* history: the calls fed to the three backends, and the last one
    g_initialized, \* g_sim_initialized (Linux) or g_initialized (Windows)
    g_devices,  \* g_sim_devices[] (Linux) or g_devices[] (Windows): active, stats
    hnd,        \* per caller: the handle it holds and its transfer in progress
    own,        \* history: per device, what was recorded on it and how it was opened
    dlast,      \* history: the last call on a device of the array
    cfg,        \* struct pcie_sim_test_config: the error part and the flag
    run,        \* the ErrorInjector of a test run and its last transfer
    lat,        \* the delay computed for a transfer, in both directions
    call,       \* per caller of a shared device: where its transfer call is
    rq,         \* the ring lock, each ring caller's position and locals, history
    vld,        \* history: the last pcie_sim_config_validate call and its result
    logf,       \* the CSVLogger of a session, its file, and the threads that log
    mem,        \* the caller's memory around its buffer, and the last access to it
    dly,        \* the transfer whose delay is computed, and history: all delays computed
    g_global_lock, \* owner of the Windows simulation's critical section, or LockFree
    ioc,        \* per caller of the character device: where its ioctl is, and history
    mmio,       \* the device's BAR0 registers and interrupt flag, and the last MMIO call
    objs,       \* the Device objects of a program, and history: opens and closes per handle
    names,      \* the pattern and scenario names being converted, and what they parsed to
    pm          \* a PerformanceMonitor: its members, its threads, and where its owner is

ringVars == <<ring, now, subLog, compLog, rlast>>

statVars == <<backend, stats, seen, tlast>>

concVars == <<mutex, thr, mon, acct>>

devVars == <<g_initialized, g_devices, hnd, own, dlast>>

injVars == <<cfg, run>>

lateVars == <<g_global_lock, ioc, mmio, objs, names, pm>>

moreVars == <<rq, vld, logf, mem, dly, lateVars>>

otherVars == <<trio, tstep, g_initialized, g_devices, hnd, own, dlast,
               cfg, run, lat, call, moreVars>>

vars == <<ring, now, subLog, compLog, rlast, backend, stats, seen, tlast,
          mutex, thr, mon, acct, trio, tstep,
          g_initialized, g_devices, hnd, own, dlast, cfg, run, lat, call, moreVars>>

(***************************************************************************)
(* Program constants                                                       *)
(***************************************************************************)
RING_SIZE == 256
ENOSPC == 28
ENODATA == 61
EINVAL == 22
ENOMEM == 12
EFAULT == 14
MIN_TRANSFER_SIZE == 1
MAX_TRANSFER_SIZE == 1048576
WIN_MAX_SIZE == 1048576
PCIE_SIM_SUCCESS == 0
PCIE_SIM_ERROR_DEVICE == -1
PCIE_SIM_ERROR_PARAM == -2
PCIE_SIM_ERROR_MEMORY == -3
PCIE_SIM_ERROR_TIMEOUT == -4
PCIE_SIM_ERROR_SYSTEM == -5
MAX_DEVICES == 8
PCIE_SIM_TO_DEVICE == 0
PCIE_SIM_FROM_DEVICE == 1
\* Stands for 2^64 - 1: larger than every latency the model measures.
UINT64_MAX == 2147483647

(***************************************************************************)
(* Bounds of the model                                                     *)
(***************************************************************************)
RingCap == 3          \* ring->size of the small ring explored exhaustively
MaxSubmits == 4       \* successful submits explored on the small ring
MaxOverruns == 1      \* rejected submits explored per ring
MaxTime == 2          \* clock ticks explored
MaxFillCompletes == 1 \* successful completes explored on the 256-slot ring
MaxCalls == 4         \* calls per reset explored by SpecStats
MaxValCalls == 1      \* calls per reset explored by SpecValidate
MaxCountCalls == 10   \* calls per reset explored by SpecCount
MaxPerWorker == 2     \* transfers each concurrent caller makes
MaxMonitorOps == 1    \* snapshots and resets the monitoring thread makes
MaxLockSteps == 3     \* calls fed to the three backends side by side

Lengths == {64, 4096}
Addrs == {4096}
FlagSet == {1}
StatusSet == {1}

(***************************************************************************)
(* kernel/ringbuffer.c                                                     *)
(***************************************************************************)
ZeroDesc ==
    [buffer_addr |-> 0, length |-> 0, flags |-> 0, timestamp |-> 0, status |-> 0]

\* init_ring: the code always passes RING_SIZE; n is the ring->size it sets.
init_ring(n) ==
    [size |-> n, head |-> 0, tail |-> 0, count |-> 0,
     submissions |-> 0, completions |-> 0, overruns |-> 0,
     descriptors |-> [i \in 0 .. n - 1 |-> ZeroDesc]]

pcie_sim_ring_count(r) == r.count

pcie_sim_ring_space(r) == r.size - r.count

\* Mutant: the space check compares with > instead of >=.
pcie_sim_ring_submit_gt(r, buffer_addr, length, flags, t) ==
    IF r.count > r.size
    THEN [ring |-> [r EXCEPT !.overruns = @ + 1], ret |-> -ENOSPC]
    ELSE [ring |-> [r EXCEPT
                      !.descriptors[r.head % r.size] =
                          [buffer_addr |-> buffer_addr, length |-> length,
                           flags |-> flags, timestamp |-> t, status |-> 0],
                      !.head = (r.head + 1) % r.size,
                      !.count = @ + 1,
                      !.submissions = @ + 1],
          ret |-> 0]

\* Mutant: the ring is reported full when the slot after head is tail.
pcie_sim_ring_submit_one_free(r, buffer_addr, length, flags, t) ==
    IF (r.head + 1) % r.size = r.tail
    THEN [ring |-> [r EXCEPT !.overruns = @ + 1], ret |-> -ENOSPC]
    ELSE [ring |-> [r EXCEPT
                      !.descriptors[r.head] =
                          [buffer_addr |-> buffer_addr, length |-> length,
                           flags |-> flags, timestamp |-> t, status |-> 0],
                      !.head = (r.head + 1) % r.size,
                      !.count = @ + 1,
                      !.submissions = @ + 1],
          ret |-> 0]

\* Mutant: a submit on a full ring is rejected without being counted.
pcie_sim_ring_submit_uncounted(r, buffer_addr, length, flags, t) ==
    IF r.count >= r.size
    THEN [ring |-> r, ret |-> -ENOSPC]
    ELSE [ring |-> [r EXCEPT
                      !.descriptors[r.head] =
                          [buffer_addr |-> buffer_addr, length |-> length,
                           flags |-> flags, timestamp |-> t, status |-> 0],
                      !.head = (r.head + 1) % r.size,
                      !.count = @ + 1,
                      !.submissions = @ + 1],
          ret |-> 0]

\* Mutant: head advances without wrapping at the end of the array.
pcie_sim_ring_submit_nowrap(r, buffer_addr, length, flags, t) ==
    IF r.count >= r.size
    THEN [ring |-> [r EXCEPT !.overruns = @ + 1], ret |-> -ENOSPC]
    ELSE [ring |-> [r EXCEPT
                      !.descriptors[r.head % r.size] =
                          [buffer_addr |-> buffer_addr, length |-> length,
                           flags |-> flags, timestamp |-> t, status |-> 0],
                      !.head = r.head + 1,
                      !.count = @ + 1,
                      !.submissions = @ + 1],
          ret |-> 0]

\* pcie_sim_ring_submit, the whole body runs under ring->lock.
\* t is the value ktime_get_ns() returns.
pcie_sim_ring_submit(r, buffer_addr, length, flags, t) ==
    IF r.count >= r.size
    THEN [ring |-> [r EXCEPT !.overruns = @ + 1], ret |-> -ENOSPC]
    ELSE [ring |-> [r EXCEPT
                      !.descriptors[r.head] =
                          [buffer_addr |-> buffer_addr, length |-> length,
                           flags |-> flags, timestamp |-> t, status |-> 0],
                      !.head = (r.head + 1) % r.size,
                      !.count = @ + 1,
                      !.submissions = @ + 1],
          ret |-> 0]

\* Mutant: an empty ring stores zeros through both output pointers.
pcie_sim_ring_complete_zeroes(r, status, t) ==
    IF r.count = 0
    THEN [ring |-> r, ret |-> -ENODATA, written |-> TRUE,
          length |-> 0, latency_ns |-> 0]
    ELSE LET desc == r.descriptors[r.tail]
         IN  [ring |-> [r EXCEPT
                          !.descriptors[r.tail].status = status,
                          !.tail = (r.tail + 1) % r.size,
                          !.count = @ - 1,
                          !.completions = @ + 1],
              ret |-> 0, written |-> TRUE,
              length |-> desc.length,
              latency_ns |-> t - desc.timestamp]

\* Mutant: complete takes the newest descriptor (the slot before head).
pcie_sim_ring_complete_newest(r, status, t) ==
    IF r.count = 0
    THEN [ring |-> r, ret |-> -ENODATA, written |-> FALSE,
          length |-> 0, latency_ns |-> 0]
    ELSE LET slot == (r.head + r.size - 1) % r.size
             desc == r.descriptors[slot]
         IN  [ring |-> [r EXCEPT
                          !.descriptors[slot].status = status,
                          !.head = slot,
                          !.count = @ - 1,
                          !.completions = @ + 1],
              ret |-> 0, written |-> TRUE,
              length |-> desc.length,
              latency_ns |-> t - desc.timestamp]

\* Mutant: the complete also clears the length of the descriptor.
pcie_sim_ring_complete_clears(r, status, t) ==
    IF r.count = 0
    THEN [ring |-> r, ret |-> -ENODATA, written |-> FALSE,
          length |-> 0, latency_ns |-> 0]
    ELSE LET desc == r.descriptors[r.tail]
         IN  [ring |-> [r EXCEPT
                          !.descriptors[r.tail].status = status,
                          !.descriptors[r.tail].length = 0,
                          !.tail = (r.tail + 1) % r.size,
                          !.count = @ - 1,
                          !.completions = @ + 1],
              ret |-> 0, written |-> TRUE,
              length |-> desc.length,
              latency_ns |-> t - desc.timestamp]

\* pcie_sim_ring_complete, the whole body runs under ring->lock.
\* t is the value ktime_get_ns() returns; length and latency_ns are the
\* values stored through the two output pointers when written is TRUE.
pcie_sim_ring_complete(r, status, t) ==
    IF r.count = 0
    THEN [ring |-> r, ret |-> -ENODATA, written |-> FALSE,
          length |-> 0, latency_ns |-> 0]
    ELSE LET desc == r.descriptors[r.tail]
         IN  [ring |-> [r EXCEPT
                          !.descriptors[r.tail].status = status,
                          !.tail = (r.tail + 1) % r.size,
                          !.count = @ - 1,
                          !.completions = @ + 1],
              ret |-> 0, written |-> TRUE,
              length |-> desc.length,
              latency_ns |-> t - desc.timestamp]

(***************************************************************************)
(* struct pcie_sim_stats and the code that updates it, per backend         *)
(***************************************************************************)
ZeroStats ==
    [total_transfers |-> 0, total_bytes |-> 0, total_errors |-> 0,
     avg_latency_ns |-> 0, min_latency_ns |-> 0, max_latency_ns |-> 0]

\* kernel/dma.c: validate_transfer_request. buffer is "NULL" or "buf".
validate_transfer_request(buffer, size, direction) ==
    IF buffer = "NULL" THEN -EINVAL
    ELSE IF size < MIN_TRANSFER_SIZE \/ size > MAX_TRANSFER_SIZE THEN -EINVAL
    ELSE IF direction > 1 THEN -EINVAL
    ELSE 0

\* Mutant: the byte total grows by one per transfer instead of by its size.
update_transfer_stats_bytes(st, size, latency_ns, success) ==
    IF success
    THEN [st EXCEPT
            !.total_transfers = @ + 1,
            !.total_bytes = @ + 1,
            !.min_latency_ns =
                IF st.min_latency_ns = 0 \/ latency_ns < st.min_latency_ns
                THEN latency_ns ELSE @,
            !.max_latency_ns =
                IF latency_ns > st.max_latency_ns THEN latency_ns ELSE @,
            !.avg_latency_ns = (st.avg_latency_ns + latency_ns) \div 2]
    ELSE [st EXCEPT !.total_errors = @ + 1]

\* Mutant: the minimum is only set by the first sample.
update_transfer_stats_min(st, size, latency_ns, success) ==
    IF success
    THEN [st EXCEPT
            !.total_transfers = @ + 1,
            !.total_bytes = @ + size,
            !.min_latency_ns =
                IF st.min_latency_ns = 0 THEN latency_ns ELSE @,
            !.max_latency_ns =
                IF latency_ns > st.max_latency_ns THEN latency_ns ELSE @,
            !.avg_latency_ns = (st.avg_latency_ns + latency_ns) \div 2]
    ELSE [st EXCEPT !.total_errors = @ + 1]

\* kernel/dma.c: update_transfer_stats.
update_transfer_stats(st, size, latency_ns, success) ==
    IF success
    THEN [st EXCEPT
            !.total_transfers = @ + 1,
            !.total_bytes = @ + size,
            !.min_latency_ns =
                IF st.min_latency_ns = 0 \/ latency_ns < st.min_latency_ns
                THEN latency_ns ELSE @,
            !.max_latency_ns =
                IF latency_ns > st.max_latency_ns THEN latency_ns ELSE @,
            !.avg_latency_ns = (st.avg_latency_ns + latency_ns) \div 2]
    ELSE [st EXCEPT !.total_errors = @ + 1]

\* kernel/dma.c: pcie_sim_dma_transfer. fault is what the environment does
\* to the call: "enomem" (kzalloc fails), "efault" (the user buffer cannot
\* be copied) or nothing; latency is end_time - start_time.
\* latency_ns is req->latency_ns, which the caller passed in as 0; done
\* says whether the simulated DMA ran to its end and was recorded.
pcie_sim_dma_transfer(st, buffer, size, direction, fault, latency) ==
    LET v == validate_transfer_request(buffer, size, direction)
    IN  IF v # 0
        THEN [stats |-> update_transfer_stats(st, size, 0, FALSE),
              ret |-> v, latency_ns |-> 0, done |-> FALSE]
        ELSE IF fault = "enomem"
        THEN [stats |-> update_transfer_stats(st, size, 0, FALSE),
              ret |-> -ENOMEM, latency_ns |-> 0, done |-> FALSE]
        ELSE IF fault = "efault"
        THEN [stats |-> update_transfer_stats(st, size, 0, FALSE),
              ret |-> -EFAULT, latency_ns |-> 0, done |-> FALSE]
        ELSE [stats |-> update_transfer_stats(st, size, latency, TRUE),
              ret |-> 0, latency_ns |-> latency, done |-> TRUE]

\* The character device's ioctl, PCIE_SIM_IOC_TRANSFER, run under dev->mutex.
\* fault "arg_unreadable": copy_from_user of the request fails;
\* fault "arg_readonly": copy_to_user of the request fails.
ioctl_transfer(st, buffer, size, direction, fault, latency) ==
    IF fault = "arg_unreadable"
    THEN [stats |-> st, ret |-> -EFAULT, latency_ns |-> 0, done |-> FALSE]
    ELSE LET r == pcie_sim_dma_transfer(st, buffer, size, direction, fault, latency)
         IN  IF r.ret = 0 /\ fault = "arg_readonly"
             THEN [r EXCEPT !.ret = -EFAULT, !.latency_ns = 0]
             ELSE r

\* PCIE_SIM_IOC_GET_STATS: copy_to_user of dev->stats.
ioctl_get_stats(st) == [ret |-> 0, snap |-> st]

\* Mutant: the reset leaves the error counter as it was.
ioctl_reset_stats_keep_errors(st) ==
    [ZeroStats EXCEPT !.total_errors = st.total_errors]

\* PCIE_SIM_IOC_RESET_STATS: memset of dev->stats.
ioctl_reset_stats(st) == ZeroStats

\* sim/linux_sim.c: the latency part of the statistics update of
\* pcie_sim_transfer_linux; st.total_transfers is already incremented.
linux_latency(st, current_latency) ==
    IF st.total_transfers = 1
    THEN [st EXCEPT
            !.avg_latency_ns = current_latency,
            !.min_latency_ns = current_latency,
            !.max_latency_ns = current_latency]
    ELSE [st EXCEPT
            !.avg_latency_ns = (st.avg_latency_ns + current_latency) \div 2,
            !.min_latency_ns =
                IF current_latency < st.min_latency_ns
                THEN current_latency ELSE @,
            !.max_latency_ns =
                IF current_latency > st.max_latency_ns
                THEN current_latency ELSE @]

\* sim/linux_sim.c: the statistics update of pcie_sim_transfer_linux, the
\* part between pthread_mutex_lock and pthread_mutex_unlock.
linux_record(st, size, current_latency) ==
    linux_latency([st EXCEPT !.total_transfers = @ + 1,
                             !.total_bytes = @ + size],
                  current_latency)

\* sim/linux_sim.c: pcie_sim_transfer_linux. handle and buffer are "NULL" or
\* a valid pointer; a handle that pcie_sim_open_linux returned has
\* device_id < MAX_DEVICES. The direction is not validated.
pcie_sim_transfer_linux(st, handle, buffer, size, direction, latency) ==
    IF handle = "NULL" \/ buffer = "NULL" \/ size = 0
    THEN [stats |-> st, ret |-> PCIE_SIM_ERROR_PARAM, latency_ns |-> 0,
          done |-> FALSE]
    ELSE [stats |-> linux_record(st, size, latency),
          ret |-> PCIE_SIM_SUCCESS, latency_ns |-> latency, done |-> TRUE]

pcie_sim_get_stats_linux(st, handle) ==
    IF handle = "NULL"
    THEN [ret |-> PCIE_SIM_ERROR_PARAM, snap |-> ZeroStats]
    ELSE [ret |-> PCIE_SIM_SUCCESS, snap |-> st]

pcie_sim_reset_stats_linux(st, handle) ==
    IF handle = "NULL"
    THEN [ret |-> PCIE_SIM_ERROR_PARAM, stats |-> st]
    ELSE [ret |-> PCIE_SIM_SUCCESS, stats |-> ZeroStats]

\* sim/windows_sim.c: the statistics as windows_sim_init and
\* pcie_sim_reset_stats_impl leave them.
WindowsZeroStats == [ZeroStats EXCEPT !.min_latency_ns = UINT64_MAX]

\* sim/windows_sim.c: the statistics update of pcie_sim_transfer_impl.
windows_record(st, size, transfer_latency) ==
    LET n == st.total_transfers + 1
    IN  [st EXCEPT
           !.total_transfers = n,
           !.total_bytes = @ + size,
           !.min_latency_ns =
               IF transfer_latency < st.min_latency_ns
               THEN transfer_latency ELSE @,
           !.max_latency_ns =
               IF transfer_latency > st.max_latency_ns
               THEN transfer_latency ELSE @,
           !.avg_latency_ns =
               IF n = 1 THEN transfer_latency
               ELSE (st.avg_latency_ns * (n - 1) + transfer_latency) \div n]

\* sim/windows_sim.c: pcie_sim_transfer_impl. active is dev->active and
\* waited is whether WaitForSingleObject got the device mutex in time.
\* The direction is not validated: anything but TO_DEVICE is a read.
pcie_sim_transfer_impl(st, handle, buffer, size, direction, active, waited, latency) ==
    IF handle = "NULL" \/ buffer = "NULL" \/ size = 0 \/ size > WIN_MAX_SIZE
    THEN [stats |-> st, ret |-> PCIE_SIM_ERROR_PARAM, latency_ns |-> 0,
          done |-> FALSE]
    ELSE IF ~active
    THEN [stats |-> st, ret |-> PCIE_SIM_ERROR_DEVICE, latency_ns |-> 0,
          done |-> FALSE]
    ELSE IF ~waited
    THEN [stats |-> st, ret |-> PCIE_SIM_ERROR_TIMEOUT, latency_ns |-> 0,
          done |-> FALSE]
    ELSE [stats |-> windows_record(st, size, latency),
          ret |-> PCIE_SIM_SUCCESS, latency_ns |-> latency, done |-> TRUE]

pcie_sim_get_stats_impl(st, handle, active, waited) ==
    IF handle = "NULL"
    THEN [ret |-> PCIE_SIM_ERROR_PARAM, snap |-> ZeroStats]
    ELSE IF ~active
    THEN [ret |-> PCIE_SIM_ERROR_DEVICE, snap |-> ZeroStats]
    ELSE IF ~waited
    THEN [ret |-> PCIE_SIM_ERROR_TIMEOUT, snap |-> ZeroStats]
    ELSE [ret |-> PCIE_SIM_SUCCESS, snap |-> st]

pcie_sim_reset_stats_impl(st, handle, active, waited) ==
    IF handle = "NULL"
    THEN [ret |-> PCIE_SIM_ERROR_PARAM, stats |-> st]
    ELSE IF ~active
    THEN [ret |-> PCIE_SIM_ERROR_DEVICE, stats |-> st]
    ELSE IF ~waited
    THEN [ret |-> PCIE_SIM_ERROR_TIMEOUT, stats |-> st]
    ELSE [ret |-> PCIE_SIM_SUCCESS, stats |-> WindowsZeroStats]

\* The statistics of a device that has just been opened: the kernel driver
\* zeroes them in pcie_sim_probe, the Linux simulation in the first
\* pcie_sim_open_linux, the Windows simulation in windows_sim_init.
OpenStats(b) == IF b = "windows" THEN WindowsZeroStats ELSE ZeroStats

NoCall ==
    [op |-> "none", ret |-> 0, buffer |-> "buf", size |-> 0, direction |-> 0,
     latency_ns |-> 0, pre |-> ZeroStats, snap |-> ZeroStats,
     prev |-> [op |-> "none", recorded |-> FALSE]]

NoneSeen == [ok |-> 0, bytes |-> 0, bad |-> 0, lats |-> {}]

\* The threads that use one device at the same time: the callers that make
\* transfers (the stress test starts one thread per caller) and one thread
\* that takes snapshots and resets the statistics.
Workers == {"w1", "w2"}

Monitor == "mon"

MutexFree == "free"

IdleThread ==
    [pc |-> "idle", left |-> 0, size |-> 0, latency |-> 0, reg |-> 0]

IdleMonitor ==
    [pc |-> "idle", ops |-> 0, kind |-> "none", snap |-> ZeroStats,
     cands |-> {}, ready |-> FALSE]

NoRecords == [done |-> 0, bytes |-> 0, resets |-> 0, last |-> ZeroStats]

\* The thread variables of a specification with a single caller.
ConcIdle ==
    /\ mutex = MutexFree
    /\ thr = [t \in Workers |-> IdleThread]
    /\ mon = IdleMonitor
    /\ acct = NoRecords

\* The three backends side by side, each with a device just opened.
FreshTrio ==
    [kernel |-> ZeroStats, linux |-> ZeroStats, windows |-> WindowsZeroStats]

NoStep == [n |-> 0, op |-> "none", rets |-> <<0, 0, 0>>]

\* The devices the model opens, out of the MAX_DEVICES of the array, and
\* the callers that hold handles to them.
DevIds == {0, 1}

Callers == {"c1", "c2"}

\* The device array in static storage, before anything was opened.
StaticDevices == [d \in DevIds |-> [active |-> FALSE, stats |-> ZeroStats]]

NoHandle == [open |-> FALSE, device_id |-> 0, pc |-> "idle", size |-> 0,
             latency |-> 0]

NothingOwned ==
    [d \in DevIds |-> [ok |-> 0, bytes |-> 0, opened |-> FALSE, users |-> 0,
                       cold |-> FALSE]]

NoDevCall ==
    [op |-> "none", caller |-> "c1", device_id |-> 0, ret |-> 0,
     snap |-> ZeroStats, pre |-> StaticDevices, cold |-> FALSE, n |-> 0]

\* The device array of a specification that uses a single device.
DevIdle ==
    /\ g_initialized = FALSE
    /\ g_devices = StaticDevices
    /\ hnd = [c \in Callers |-> NoHandle]
    /\ own = NothingOwned
    /\ dlast = NoDevCall

PCIE_SIM_ERROR_SCENARIO_NONE == 0
PCIE_SIM_ERROR_SCENARIO_TIMEOUT == 1
PCIE_SIM_ERROR_SCENARIO_CORRUPTION == 2
PCIE_SIM_ERROR_SCENARIO_OVERRUN == 3

\* pcie_sim_config_init: the configuration after the memset and the
\* defaults (the transfer part is PCIE_SIM_PATTERN_MIXED_CONFIG).
\* Probabilities are in thousandths; enable_errors is the flag bit
\* PCIE_SIM_CONFIG_ENABLE_ERRORS.
pcie_sim_config_init ==
    [scenario |-> PCIE_SIM_ERROR_SCENARIO_NONE, probability |-> 0,
     recovery_time_ms |-> 0, enable_errors |-> FALSE,
     num_devices |-> 1, min_size |-> 1024, max_size |-> 65536,
     rate_hz |-> 1000, num_threads |-> 1, duration_seconds |-> 10]

\* No pcie_sim_config_validate call made yet.
NoValidate == [n |-> 0, ret |-> 0, config |-> pcie_sim_config_init]

\* A test run that has not started: no injector, no transfer made.
NoRun ==
    [started |-> FALSE, injector |-> FALSE,
     scenario_ |-> PCIE_SIM_ERROR_SCENARIO_NONE, probability_ |-> 0, n |-> 0,
     inject_error |-> FALSE, extra_ms |-> 0, error_status |-> "SUCCESS",
     latency_ns |-> 0]

\* The configuration and the run of a specification that injects nothing.
InjIdle ==
    /\ cfg = pcie_sim_config_init
    /\ run = NoRun

\* No delay computed yet.
NoDelay == [n |-> 0, build |-> "none", size |-> 0, to_device |-> 0,
            from_device |-> 0]

\* The threads that call pcie_sim_transfer on one device.
Threads == {"t1", "t2", "t3"}

\* A thread that has made no call.
NoCallYet == [pc |-> "idle", size |-> 0, calls |-> 0, returns |-> 0,
              ret |-> 0, waited |-> FALSE]

CallIdle == call = [t \in Threads |-> NoCallYet]

\* Callers of the ring functions: interrupt handlers and process context.
RingCallers == {"r1", "r2", "r3"}

NoRingLocals ==
    [pc |-> "idle", op |-> "none", length |-> 0, status |-> 0, next_head |-> 0,
     desc |-> 0, ticket |-> 0]

\* rq before any caller has entered a ring function.  lock is the owner of
\* ring->lock or "free"; tickets, slot_ticket, completed, ok_submit and
\* ok_complete are history.
NoRingCallers ==
    [lock |-> "free",
     c |-> [t \in RingCallers |-> NoRingLocals],
     calls |-> 0, tickets |-> 0,
     slot_ticket |-> [i \in 0 .. RingCap - 1 |-> 0],
     completed |-> <<>>,
     ok_submit |-> 0, ok_complete |-> 0]

\* The threads of the test program: main and the stress workers.
LogThreads == {"main", "w1", "w2"}

\* Before the SessionLogger is constructed: no logger, no file, no thread
\* has made a transfer.  done is history: the transfers completed.
NoSession ==
    [logger_ |-> FALSE, is_open |-> FALSE, header_written_ |-> FALSE,
     record_count_ |-> 0, mutex_ |-> "free", file_ |-> <<>>,
     phase |-> "ctor", done |-> 0,
     t |-> [w \in LogThreads |->
              [pc |-> "off", id |-> 0, status |-> "SUCCESS", count |-> 0]]]

\* The bytes of the caller's memory explored: the buffer lies inside.
MemCells == 0 .. 4

\* Memory no transfer has touched.  cells is the memory; the rest is
\* history: the last transfer's arguments, the cells it read and wrote,
\* the memory before it and what the test program reported for it.
NoAccess ==
    [cells |-> [i \in MemCells |-> i], n |-> 0,
     base |-> 0, size |-> 0, direction |-> 0, ret |-> 0,
     reads |-> {}, writes |-> {}, pre |-> [i \in MemCells |-> i],
     scenario |-> 0, latency_ns |-> 0, error_status |-> "SUCCESS"]

\* No transfer is inside its delay and none has computed one.
NoDelayYet ==
    [n |-> 0, active |-> FALSE, size |-> 0, direction |-> 0, delay_ns |-> 0,
     table |-> {}]

LockFree == "free"

NoCmd == [type |-> 0, nr |-> 0]

NoIoctl ==
    [c |-> [t \in {"w1", "w2"} |->
               [pc |-> "idle", cmd |-> NoCmd, fault |-> "none", size |-> 0,
                ret |-> 0, acquired |-> 0, released |-> 0,
                changed |-> FALSE]],
     calls |-> 0, returned |-> 0]

\* struct pcie_sim_device as kzalloc leaves it: no BAR0, nothing pending.
NoBar ==
    [dev |-> [bar0_virt |-> FALSE, bar0_size |-> 0, regs |-> <<>>,
              perf_latency |-> 0, perf_count |-> 0,
              pending_interrupts |-> 0, dma_active |-> 0,
              simulate_errors |-> FALSE, fault_injection_rate |-> 0],
     last |-> [op |-> "none", offset |-> 0, value |-> {}]]

nullptr == 0

\* No Device object exists and pcie_sim_open was never called.
NoObjects ==
    [o |-> [d \in {"a", "b", "c"} |-> [alive |-> FALSE, handle_ |-> nullptr]],
     opened |-> 0,
     closes |-> <<>>,
     last |-> [op |-> "none", this |-> "a", other |-> "a"]]

\* No name was converted yet; origin -1 marks a text the user supplied.
NoName == [origin |-> -1, text |-> "NULL", parsed |-> -1, done |-> FALSE]

NoNames == [pattern |-> NoName, scenario |-> NoName]

\* A PerformanceMonitor after its constructor: monitoring_ is false and
\* monitor_thread_ is not joinable (0); no thread was created.
NoMonitor ==
    [monitoring_ |-> FALSE, monitor_thread_ |-> 0, callback |-> "nullptr",
     threads |-> <<>>,
     owner |-> [pc |-> "idle", in |-> "none", calls |-> 0],
     quiet |-> TRUE, late |-> FALSE, terminated |-> FALSE, destroyed |-> FALSE]

LateIdle ==
    /\ g_global_lock = LockFree
    /\ ioc = NoIoctl
    /\ mmio = NoBar
    /\ objs = NoObjects
    /\ names = NoNames
    /\ pm = NoMonitor

MoreIdle ==
    /\ LateIdle
    /\ rq = NoRingCallers
    /\ vld = NoValidate
    /\ logf = NoSession
    /\ mem = NoAccess
    /\ dly = NoDelayYet

\* The remaining variables of a specification that does not use them.
OtherIdle ==
    /\ trio = FreshTrio
    /\ tstep = NoStep
    /\ DevIdle
    /\ InjIdle
    /\ lat = NoDelay
    /\ CallIdle
    /\ MoreIdle

\* The statistics variables of a specification that is about the ring only.
StatIdle ==
    /\ backend = "kernel"
    /\ stats = ZeroStats
    /\ seen = NoneSeen
    /\ tlast = NoCall

(***************************************************************************)
(* Ring operations as actions                                              *)
(***************************************************************************)
NoRingCall ==
    [op |-> "none", ret |-> 0, preCount |-> 0, length |-> 0, latency_ns |-> 0,
     rejected |-> 0, out_length |-> -1, out_latency_ns |-> -1]

RingInit(n) ==
    /\ ring = init_ring(n)
    /\ now = 0
    /\ subLog = <<>>
    /\ compLog = <<>>
    /\ rlast = NoRingCall
    /\ StatIdle
    /\ ConcIdle
    /\ OtherIdle

RingSubmit(buffer_addr, length, flags) ==
    LET res == pcie_sim_ring_submit(ring, buffer_addr, length, flags, now)
    IN  /\ ring' = res.ring
        /\ subLog' = IF res.ret = 0
                     THEN Append(subLog, [length |-> length, timestamp |-> now])
                     ELSE subLog
        /\ rlast' = [op |-> "submit", ret |-> res.ret, preCount |-> ring.count,
                     length |-> length, latency_ns |-> 0,
                     rejected |-> rlast.rejected
                                  + (IF res.ret = -ENOSPC THEN 1 ELSE 0),
                     out_length |-> rlast.out_length,
                     out_latency_ns |-> rlast.out_latency_ns]
        /\ UNCHANGED <<now, compLog, statVars, concVars, otherVars>>

RingComplete(status) ==
    LET res == pcie_sim_ring_complete(ring, status, now)
    IN  /\ ring' = res.ring
        /\ compLog' = IF res.ret = 0
                      THEN Append(compLog, [length |-> res.length,
                                            latency_ns |-> res.latency_ns,
                                            time |-> now])
                      ELSE compLog
        /\ rlast' = [op |-> "complete", ret |-> res.ret, preCount |-> ring.count,
                     length |-> res.length, latency_ns |-> res.latency_ns,
                     rejected |-> rlast.rejected,
                     out_length |-> IF res.written THEN res.length
                                    ELSE rlast.out_length,
                     out_latency_ns |-> IF res.written THEN res.latency_ns
                                        ELSE rlast.out_latency_ns]
        /\ UNCHANGED <<now, subLog, statVars, concVars, otherVars>>

\* The clock advances between calls.
Tick ==
    /\ now < MaxTime
    /\ now' = now + 1
    /\ UNCHANGED <<ring, subLog, compLog, rlast, statVars, concVars, otherVars>>

(***************************************************************************)
(* SpecRing: every interleaving of submit, complete and clock ticks on a   *)
(* ring of RingCap slots.                                                  *)
(***************************************************************************)
InitRing == RingInit(RingCap)

SubmitSmall ==
    /\ ring.submissions < MaxSubmits \/ ring.count = ring.size
    /\ ring.overruns < MaxOverruns
    /\ \E a \in Addrs, l \in Lengths, f \in FlagSet : RingSubmit(a, l, f)

CompleteSmall == \E s \in StatusSet : RingComplete(s)

NextRing == SubmitSmall \/ CompleteSmall \/ Tick

SpecRing == InitRing /\ [][NextRing]_vars

(***************************************************************************)
(* SpecFill: a freshly initialised ring of RING_SIZE slots that is filled. *)
(***************************************************************************)
InitFill == RingInit(RING_SIZE)

SubmitFill ==
    /\ ring.overruns < MaxOverruns
    /\ RingSubmit(4096, 4096, 1)

CompleteFill ==
    /\ ring.completions < MaxFillCompletes
    /\ RingComplete(1)

NextFill == SubmitFill \/ CompleteFill

SpecFill == InitFill /\ [][NextFill]_vars

(***************************************************************************)
(* Calls on the device as actions                                          *)
(***************************************************************************)
Backends == {"kernel", "linux", "windows"}

\* The ring variables of a specification that is about the statistics only:
\* no backend's transfer path touches the rings.
RingIdle ==
    /\ ring = init_ring(RingCap)
    /\ now = 0
    /\ subLog = <<>>
    /\ compLog = <<>>
    /\ rlast = NoRingCall

\* A device that has just been opened, in any of the three builds.
StatInit ==
    /\ backend \in Backends
    /\ stats = OpenStats(backend)
    /\ seen = NoneSeen
    /\ tlast = NoCall
    /\ RingIdle
    /\ ConcIdle
    /\ OtherIdle

\* The calls made since the last reset.
Calls == seen.ok + seen.bad

\* History: the call before the one that is being made, and whether that
\* call found transfers or errors recorded in the block.
Prev ==
    [op |-> tlast.op,
     recorded |-> tlast.pre.total_transfers + tlast.pre.total_errors > 0]

\* What a transfer call leaves behind. res is the backend's result.
TransferEffect(res, buffer, size, direction, latency) ==
    /\ stats' = res.stats
    /\ seen' = [ok |-> seen.ok + (IF res.done THEN 1 ELSE 0),
                bytes |-> seen.bytes + (IF res.done THEN size ELSE 0),
                bad |-> seen.bad + (IF res.ret # 0 THEN 1 ELSE 0),
                lats |-> IF res.done THEN seen.lats \cup {latency} ELSE seen.lats]
    /\ tlast' = [op |-> "transfer", ret |-> res.ret, buffer |-> buffer,
                 size |-> size, direction |-> direction,
                 latency_ns |-> res.latency_ns, pre |-> stats, snap |-> ZeroStats,
                 prev |-> Prev]

TransferDone(res, buffer, size, direction, latency) ==
    /\ TransferEffect(res, buffer, size, direction, latency)
    /\ UNCHANGED <<backend, ringVars, concVars, otherVars>>

GetStatsDone(res) ==
    /\ tlast' = [op |-> "get_stats", ret |-> res.ret, buffer |-> "buf", size |-> 0,
                 direction |-> 0, latency_ns |-> 0, pre |-> stats, snap |-> res.snap,
                 prev |-> Prev]
    /\ UNCHANGED <<backend, stats, seen, ringVars, concVars, otherVars>>

ResetDone(ret, st) ==
    /\ stats' = st
    /\ seen' = IF ret = 0 THEN NoneSeen ELSE seen
    /\ tlast' = [op |-> "reset", ret |-> ret, buffer |-> "buf", size |-> 0,
                 direction |-> 0, latency_ns |-> 0, pre |-> stats, snap |-> ZeroStats,
                 prev |-> Prev]
    /\ UNCHANGED <<backend, ringVars, concVars, otherVars>>

\* ioctl(fd, PCIE_SIM_IOC_TRANSFER, &req) on the kernel driver.
KernelTransfer(B, S, D, F, L) ==
    /\ backend = "kernel"
    /\ \E buffer \in B, size \in S, direction \in D, fault \in F, latency \in L :
          TransferDone(ioctl_transfer(stats, buffer, size, direction, fault, latency),
                       buffer, size, direction, latency)

KernelGetStats ==
    /\ backend = "kernel"
    /\ GetStatsDone(ioctl_get_stats(stats))

KernelReset ==
    /\ backend = "kernel"
    /\ ResetDone(0, ioctl_reset_stats(stats))

\* pcie_sim_transfer on the Linux simulation, through an open handle.
LinuxTransfer(B, S, D, L) ==
    /\ backend = "linux"
    /\ \E buffer \in B, size \in S, direction \in D, latency \in L :
          TransferDone(pcie_sim_transfer_linux(stats, "handle", buffer, size,
                                               direction, latency),
                       buffer, size, direction, latency)

LinuxGetStats ==
    /\ backend = "linux"
    /\ GetStatsDone(pcie_sim_get_stats_linux(stats, "handle"))

LinuxReset ==
    /\ backend = "linux"
    /\ LET r == pcie_sim_reset_stats_linux(stats, "handle")
       IN  ResetDone(r.ret, r.stats)

\* pcie_sim_transfer on the Windows simulation, through an open handle: the
\* device is active and, with one caller, the mutex is free.
WindowsTransfer(B, S, D, L) ==
    /\ backend = "windows"
    /\ \E buffer \in B, size \in S, direction \in D, latency \in L :
          TransferDone(pcie_sim_transfer_impl(stats, "handle", buffer, size,
                                              direction, TRUE, TRUE, latency),
                       buffer, size, direction, latency)

WindowsGetStats ==
    /\ backend = "windows"
    /\ GetStatsDone(pcie_sim_get_stats_impl(stats, "handle", TRUE, TRUE))

WindowsReset ==
    /\ backend = "windows"
    /\ LET r == pcie_sim_reset_stats_impl(stats, "handle", TRUE, TRUE)
       IN  ResetDone(r.ret, r.stats)

StatReads == KernelGetStats \/ LinuxGetStats \/ WindowsGetStats

StatResets == KernelReset \/ LinuxReset \/ WindowsReset

(***************************************************************************)
(* SpecStats: one caller, any sequence of transfers, snapshots and resets  *)
(* on one device of any backend.                                           *)
(***************************************************************************)
Buffers == {"NULL", "buf"}
Sizes == {0, 64, 4096}
Directions == {0, 1, 2}
Latencies == {10000, 30000}
KernelFaults == {"none", "arg_unreadable", "arg_readonly", "enomem", "efault"}

TransferStats ==
    /\ Calls < MaxCalls
    /\ \/ KernelTransfer(Buffers, Sizes, Directions, KernelFaults, Latencies)
       \/ LinuxTransfer(Buffers, Sizes, Directions, Latencies)
       \/ WindowsTransfer(Buffers, Sizes, Directions, Latencies)

NextStats == TransferStats \/ StatReads \/ StatResets

SpecStats == StatInit /\ [][NextStats]_vars

(***************************************************************************)
(* SpecValidate: the first calls on a device, over the sizes around every  *)
(* limit the backends and the configuration use.                           *)
(***************************************************************************)
MinConfigSize == 64
MaxConfigSize == 4194304

EdgeSizes == {0, 1, 63, 64, 4096, 1048576, 1048577, 4194304, 4194305}

TransferValidate ==
    /\ Calls < MaxValCalls
    /\ \/ KernelTransfer(Buffers, EdgeSizes, Directions, {"none"}, {10000})
       \/ LinuxTransfer(Buffers, EdgeSizes, Directions, {10000})
       \/ WindowsTransfer(Buffers, EdgeSizes, Directions, {10000})

NextValidate == TransferValidate \/ StatResets

SpecValidate == StatInit /\ [][NextValidate]_vars

(***************************************************************************)
(* SpecCount: up to MaxCountCalls transfers in a row, as the basic test    *)
(* program makes them (4096-byte writes and a 1024-byte read).             *)
(***************************************************************************)
TransferCount ==
    /\ Calls < MaxCountCalls
    /\ \/ KernelTransfer({"buf"}, {0, 1024, 4096}, {0, 1}, {"none", "enomem"}, {10000})
       \/ LinuxTransfer({"buf"}, {0, 1024, 4096}, {0, 1}, {10000})
       \/ WindowsTransfer({"buf"}, {0, 1024, 4096}, {0, 1}, {10000})

NextCount == TransferCount \/ StatReads \/ StatResets

SpecCount == StatInit /\ [][NextCount]_vars

(***************************************************************************)
(* Several threads on one device.  A transfer is split at every access to  *)
(* the shared statistics; what a thread does on its own locals between two *)
(* such accesses is part of the step before.                               *)
(***************************************************************************)
ConcBackends == {"linux", "kernel"}
ConcSizes == {64, 4096}
ConcLatencies == {10000}

\* Mutant: the lock is taken without waiting for its owner to release it.
pthread_mutex_lock_nowait(t) == mutex' = t

\* pthread_mutex_lock(&g_sim_devices[id].mutex) by thread t.
pthread_mutex_lock(t) == mutex = MutexFree /\ mutex' = t

\* Mutant: the unlock leaves the mutex with its owner.
pthread_mutex_unlock_kept(t) == mutex' = mutex

pthread_mutex_unlock(t) == mutex' = MutexFree

\* mutex_lock_interruptible(&dev->mutex) by thread t, no signal pending.
mutex_lock_interruptible(t) == mutex = MutexFree /\ mutex' = t

mutex_unlock(t) == mutex' = MutexFree

\* The device mutex of the backend that runs.
DeviceLock(t) ==
    IF backend = "linux" THEN pthread_mutex_lock(t)
    ELSE mutex_lock_interruptible(t)

DeviceUnlock(t) ==
    IF backend = "linux" THEN pthread_mutex_unlock(t) ELSE mutex_unlock(t)

\* Thread t moves to position p.  A local that is dead (the register after
\* its store, the arguments after the return) is written back to zero.
Goto(t, p) == thr' = [thr EXCEPT ![t].pc = p]

\* History: a record or reset is complete and the block holds st.  A
\* snapshot that is being taken may stand for the block before or after it.
Committed(st, done, bytes, resets) ==
    /\ acct' = [done |-> done, bytes |-> bytes, resets |-> resets, last |-> st]
    /\ mon' = IF mon.pc = "idle" THEN mon
              ELSE [mon EXCEPT !.cands = @ \cup {st}]

InitConc ==
    /\ backend \in ConcBackends
    /\ stats = ZeroStats
    /\ seen = NoneSeen
    /\ tlast = NoCall
    /\ RingIdle
    /\ mutex = MutexFree
    /\ thr = [t \in Workers |-> [IdleThread EXCEPT !.left = MaxPerWorker]]
    /\ mon = IdleMonitor
    /\ acct = NoRecords
    /\ OtherIdle

ConcFrame == UNCHANGED <<backend, seen, tlast, ringVars, otherVars>>

\* pcie_sim_transfer_linux up to the end of the simulated delay: the
\* caller passes a handle, a buffer and a size above zero, the delay runs
\* without the mutex and current_latency is what the clock measured.
LinuxCall(t) ==
    /\ backend = "linux"
    /\ thr[t].pc = "idle"
    /\ thr[t].left > 0
    /\ \E size \in ConcSizes, latency \in ConcLatencies :
          thr' = [thr EXCEPT ![t].pc = "lock", ![t].size = size,
                             ![t].latency = latency]
    /\ UNCHANGED <<mutex, stats, mon, acct>>
    /\ ConcFrame

LinuxLock(t) ==
    /\ backend = "linux"
    /\ thr[t].pc = "lock"
    /\ pthread_mutex_lock(t)
    /\ Goto(t, "inc_load")
    /\ UNCHANGED <<stats, mon, acct>>
    /\ ConcFrame

\* stats.total_transfers++ is a load and a store.
LinuxIncLoad(t) ==
    /\ backend = "linux"
    /\ thr[t].pc = "inc_load"
    /\ thr' = [thr EXCEPT ![t].pc = "inc_store", ![t].reg = stats.total_transfers]
    /\ UNCHANGED <<mutex, stats, mon, acct>>
    /\ ConcFrame

LinuxIncStore(t) ==
    /\ backend = "linux"
    /\ thr[t].pc = "inc_store"
    /\ stats' = [stats EXCEPT !.total_transfers = thr[t].reg + 1]
    /\ thr' = [thr EXCEPT ![t].pc = "add_load", ![t].reg = 0]
    /\ UNCHANGED <<mutex, mon, acct>>
    /\ ConcFrame

\* stats.total_bytes += size is a load and a store.
LinuxAddLoad(t) ==
    /\ backend = "linux"
    /\ thr[t].pc = "add_load"
    /\ thr' = [thr EXCEPT ![t].pc = "add_store", ![t].reg = stats.total_bytes]
    /\ UNCHANGED <<mutex, stats, mon, acct>>
    /\ ConcFrame

LinuxAddStore(t) ==
    /\ backend = "linux"
    /\ thr[t].pc = "add_store"
    /\ stats' = [stats EXCEPT !.total_bytes = thr[t].reg + thr[t].size]
    /\ thr' = [thr EXCEPT ![t].pc = "latency", ![t].reg = 0]
    /\ UNCHANGED <<mutex, mon, acct>>
    /\ ConcFrame

\* The latency fields, the last writes of the record.
LinuxLatency(t) ==
    /\ backend = "linux"
    /\ thr[t].pc = "latency"
    /\ stats' = linux_latency(stats, thr[t].latency)
    /\ Goto(t, "unlock")
    /\ Committed(stats', acct.done + 1, acct.bytes + thr[t].size, acct.resets)
    /\ UNCHANGED mutex
    /\ ConcFrame

LinuxUnlock(t) ==
    /\ backend = "linux"
    /\ thr[t].pc = "unlock"
    /\ pthread_mutex_unlock(t)
    /\ thr' = [thr EXCEPT ![t] = [IdleThread EXCEPT !.left = thr[t].left - 1]]
    /\ UNCHANGED <<stats, mon, acct>>
    /\ ConcFrame

LinuxWorker(t) ==
    \/ LinuxCall(t) \/ LinuxLock(t) \/ LinuxIncLoad(t) \/ LinuxIncStore(t)
    \/ LinuxAddLoad(t) \/ LinuxAddStore(t) \/ LinuxLatency(t) \/ LinuxUnlock(t)

\* PCIE_SIM_IOC_TRANSFER: pcie_sim_char_ioctl takes dev->mutex, copies the
\* request in, and pcie_sim_dma_transfer validates it and runs the
\* simulated delay, all with the mutex held.
KernelLock(t) ==
    /\ backend = "kernel"
    /\ thr[t].pc = "idle"
    /\ thr[t].left > 0
    /\ mutex_lock_interruptible(t)
    /\ \E size \in ConcSizes, latency \in ConcLatencies :
          /\ validate_transfer_request("buf", size, PCIE_SIM_TO_DEVICE) = 0
          /\ thr' = [thr EXCEPT ![t].pc = "inc", ![t].size = size,
                                ![t].latency = latency]
    /\ UNCHANGED <<stats, mon, acct>>
    /\ ConcFrame

\* update_transfer_stats, one step per field: atomic64_inc.
KernelInc(t) ==
    /\ backend = "kernel"
    /\ thr[t].pc = "inc"
    /\ stats' = [stats EXCEPT !.total_transfers = @ + 1]
    /\ Goto(t, "add")
    /\ UNCHANGED <<mutex, mon, acct>>
    /\ ConcFrame

\* atomic64_add(req->size, &dev->stats.total_bytes).
KernelAdd(t) ==
    /\ backend = "kernel"
    /\ thr[t].pc = "add"
    /\ stats' = [stats EXCEPT !.total_bytes = @ + thr[t].size]
    /\ Goto(t, "min")
    /\ UNCHANGED <<mutex, mon, acct>>
    /\ ConcFrame

KernelMin(t) ==
    /\ backend = "kernel"
    /\ thr[t].pc = "min"
    /\ stats' = [stats EXCEPT !.min_latency_ns =
                    IF @ = 0 \/ thr[t].latency < @ THEN thr[t].latency ELSE @]
    /\ Goto(t, "max")
    /\ UNCHANGED <<mutex, mon, acct>>
    /\ ConcFrame

KernelMax(t) ==
    /\ backend = "kernel"
    /\ thr[t].pc = "max"
    /\ stats' = [stats EXCEPT !.max_latency_ns =
                    IF thr[t].latency > @ THEN thr[t].latency ELSE @]
    /\ Goto(t, "avg")
    /\ UNCHANGED <<mutex, mon, acct>>
    /\ ConcFrame

\* The average, the last write of the record.
KernelAvg(t) ==
    /\ backend = "kernel"
    /\ thr[t].pc = "avg"
    /\ stats' = [stats EXCEPT !.avg_latency_ns = (@ + thr[t].latency) \div 2]
    /\ Goto(t, "unlock")
    /\ Committed(stats', acct.done + 1, acct.bytes + thr[t].size, acct.resets)
    /\ UNCHANGED mutex
    /\ ConcFrame

\* copy_to_user of the request, mutex_unlock, return.
KernelUnlock(t) ==
    /\ backend = "kernel"
    /\ thr[t].pc = "unlock"
    /\ mutex_unlock(t)
    /\ thr' = [thr EXCEPT ![t] = [IdleThread EXCEPT !.left = thr[t].left - 1]]
    /\ UNCHANGED <<stats, mon, acct>>
    /\ ConcFrame

KernelWorker(t) ==
    \/ KernelLock(t) \/ KernelInc(t) \/ KernelAdd(t) \/ KernelMin(t)
    \/ KernelMax(t) \/ KernelAvg(t) \/ KernelUnlock(t)

\* The monitoring thread starts a call: the snapshot it will return may
\* stand for the block as the last complete record or reset left it.
MonStart(kind, p, snap) ==
    /\ mon.pc = "idle"
    /\ mon.ops < MaxMonitorOps
    /\ mon' = [pc |-> p, ops |-> mon.ops + 1, kind |-> kind, snap |-> snap,
               cands |-> {acct.last}, ready |-> FALSE]

\* pcie_sim_get_stats_linux and PCIE_SIM_IOC_GET_STATS: take the device
\* mutex, copy the block, release the mutex.
GetStatsLock ==
    /\ MonStart("get_stats", "g_copy", ZeroStats)
    /\ DeviceLock(Monitor)
    /\ UNCHANGED <<stats, thr, acct>>
    /\ ConcFrame

GetStatsCopy ==
    /\ mon.pc = "g_copy"
    /\ mon' = [mon EXCEPT !.pc = "g_unlock",
                          !.snap = IF backend = "linux"
                                   THEN pcie_sim_get_stats_linux(stats, "handle").snap
                                   ELSE ioctl_get_stats(stats).snap]
    /\ UNCHANGED <<mutex, stats, thr, acct>>
    /\ ConcFrame

GetStatsUnlock ==
    /\ mon.pc = "g_unlock"
    /\ DeviceUnlock(Monitor)
    /\ mon' = [mon EXCEPT !.pc = "report", !.ready = TRUE]
    /\ UNCHANGED <<stats, thr, acct>>
    /\ ConcFrame

\* pcie_sim_reset_stats_linux and PCIE_SIM_IOC_RESET_STATS: take the device
\* mutex, memset the block, release the mutex.
ResetLock ==
    /\ MonStart("reset", "r_memset", ZeroStats)
    /\ DeviceLock(Monitor)
    /\ UNCHANGED <<stats, thr, acct>>
    /\ ConcFrame

ResetMemset ==
    /\ mon.pc = "r_memset"
    /\ stats' = IF backend = "linux"
                THEN pcie_sim_reset_stats_linux(stats, "handle").stats
                ELSE ioctl_reset_stats(stats)
    /\ acct' = [done |-> 0, bytes |-> 0, resets |-> acct.resets + 1,
                last |-> stats']
    /\ mon' = [mon EXCEPT !.pc = "r_unlock"]
    /\ UNCHANGED <<mutex, thr>>
    /\ ConcFrame

ResetUnlock ==
    /\ mon.pc = "r_unlock"
    /\ DeviceUnlock(Monitor)
    /\ mon' = [IdleMonitor EXCEPT !.ops = mon.ops]
    /\ UNCHANGED <<stats, thr, acct>>
    /\ ConcFrame

\* proc_stats_show, the report behind /proc/pcie_simX/stats: it reads the
\* fields of dev->stats one after the other and never takes dev->mutex.
ProcReadTransfers ==
    /\ backend = "kernel"
    /\ MonStart("proc", "p_bytes",
                [ZeroStats EXCEPT !.total_transfers = stats.total_transfers])
    /\ UNCHANGED <<mutex, stats, thr, acct>>
    /\ ConcFrame

ProcRead(from, field, to) ==
    /\ backend = "kernel"
    /\ mon.pc = from
    /\ mon' = [mon EXCEPT !.pc = to, !.snap[field] = stats[field],
                          !.ready = (to = "report")]
    /\ UNCHANGED <<mutex, stats, thr, acct>>
    /\ ConcFrame

ProcReadBytes == ProcRead("p_bytes", "total_bytes", "p_errors")

ProcReadErrors == ProcRead("p_errors", "total_errors", "p_avg")

ProcReadAvg == ProcRead("p_avg", "avg_latency_ns", "p_min")

ProcReadMin == ProcRead("p_min", "min_latency_ns", "p_max")

ProcReadMax == ProcRead("p_max", "max_latency_ns", "report")

\* The caller has the snapshot or the report in hand and goes on.
MonReturn ==
    /\ mon.pc = "report"
    /\ mon' = [IdleMonitor EXCEPT !.ops = mon.ops]
    /\ UNCHANGED <<mutex, stats, thr, acct>>
    /\ ConcFrame

MonitorThread ==
    \/ GetStatsLock \/ GetStatsCopy \/ GetStatsUnlock
    \/ ResetLock \/ ResetMemset \/ ResetUnlock
    \/ ProcReadTransfers \/ ProcReadBytes \/ ProcReadErrors
    \/ ProcReadAvg \/ ProcReadMin \/ ProcReadMax
    \/ MonReturn

NextConc ==
    \/ \E t \in Workers : LinuxWorker(t)
    \/ \E t \in Workers : KernelWorker(t)
    \/ MonitorThread

SpecConc == InitConc /\ [][NextConc]_vars

\* SpecCallers: the callers and a thread that takes snapshots through
\* get_stats; nothing resets the statistics.
NextCallers ==
    \/ \E t \in Workers : LinuxWorker(t)
    \/ \E t \in Workers : KernelWorker(t)
    \/ GetStatsLock \/ GetStatsCopy \/ GetStatsUnlock \/ MonReturn

SpecCallers == InitConc /\ [][NextCallers]_vars

(***************************************************************************)
(* C1: the live count of a ring of N slots stays within 0..N; a submit on  *)
(* a full ring is rejected with -ENOSPC and a complete on an empty ring is *)
(* rejected with -ENODATA, both leaving the count as it was.               *)
(***************************************************************************)
C1_CountWithinCapacity ==
    /\ ring.count >= 0
    /\ ring.count <= ring.size
    /\ (rlast.op = "submit" /\ rlast.preCount = ring.size)
          => (rlast.ret = -ENOSPC /\ ring.count = ring.size)
    /\ (rlast.op = "complete" /\ rlast.preCount = 0)
          => (rlast.ret = -ENODATA /\ ring.count = 0)

C1_Witness ==
    /\ rlast.op = "submit"
    /\ rlast.preCount = ring.size
    /\ rlast.ret = -ENOSPC
    /\ ring.completions > 0

(***************************************************************************)
(* C2: the k-th successful complete returns the length of the k-th         *)
(* successful submit, and its latency is the completion time minus that    *)
(* descriptor's submit timestamp.                                          *)
(***************************************************************************)
C2_FifoOrder ==
    /\ Len(compLog) <= Len(subLog)
    /\ \A k \in 1 .. Len(compLog) :
          /\ compLog[k].length = subLog[k].length
          /\ compLog[k].latency_ns = compLog[k].time - subLog[k].timestamp

\* Four completes, after the indices have wrapped, of descriptors with
\* different lengths and a non-zero latency.
C2_Witness ==
    /\ Len(compLog) > ring.size
    /\ compLog[Len(compLog)].length # compLog[Len(compLog) - 1].length
    /\ compLog[Len(compLog)].latency_ns > 0
    /\ ring.submissions > ring.size

(***************************************************************************)
(* C3: on a fresh ring of 256 slots with no completions, submissions 1 to  *)
(* 256 return 0 and the 257th returns -ENOSPC; a complete on an empty ring *)
(* returns -ENODATA.                                                       *)
(***************************************************************************)
C3_FillAndOverflow ==
    /\ ring.size = RING_SIZE
    /\ ring.completions = 0 =>
          /\ ring.submissions <= 256
          /\ ring.overruns > 0 => ring.submissions = 256
          /\ rlast.op = "submit" =>
                rlast.ret = (IF ring.overruns = 0 THEN 0 ELSE -ENOSPC)
    /\ (rlast.op = "complete" /\ rlast.preCount = 0) => rlast.ret = -ENODATA

\* The 257th submit has just been rejected.
C3_Witness ==
    /\ ring.completions = 0
    /\ ring.submissions = 256
    /\ ring.overruns = 1
    /\ rlast.op = "submit"
    /\ rlast.ret = -ENOSPC

(***************************************************************************)
(* C4: in every backend the first successful transfer after open or reset  *)
(* sets avg_latency to its own latency L, and every later successful       *)
(* transfer with latency L' sets it to (avg_latency + L') / 2.             *)
(***************************************************************************)
C4_RunningAverageLaw ==
    (tlast.op = "transfer" /\ tlast.ret = 0) =>
        stats.avg_latency_ns =
            (IF seen.ok = 1
             THEN tlast.latency_ns
             ELSE (tlast.pre.avg_latency_ns + tlast.latency_ns) \div 2)

(***************************************************************************)
(* C7: a transfer request (with a buffer) is accepted exactly when         *)
(* 64 <= size <= 4 MiB and the direction is 0 or 1; every other request    *)
(* returns InvalidParameter (PCIE_SIM_ERROR_PARAM or -EINVAL).             *)
(***************************************************************************)
InvalidParameter == {PCIE_SIM_ERROR_PARAM, -EINVAL}

C7_AcceptedIffValid ==
    (tlast.op = "transfer" /\ tlast.buffer # "NULL") =>
        ((tlast.ret \notin InvalidParameter) <=>
            (/\ MinConfigSize <= tlast.size
             /\ tlast.size <= MaxConfigSize
             /\ tlast.direction \in {PCIE_SIM_TO_DEVICE, PCIE_SIM_FROM_DEVICE}))

(***************************************************************************)
(* C8: a transfer rejected for invalid parameters leaves the statistics    *)
(* and the queues of the device exactly as they were before the call.      *)
(***************************************************************************)
C8_RejectedLeavesStats ==
    (tlast.op = "transfer" /\ tlast.ret \in InvalidParameter) =>
        (stats = tlast.pre /\ ring = init_ring(RingCap))

(***************************************************************************)
(* C9: starting from reset statistics, after n successful transfers and    *)
(* no failed call, total_transfers is n, total_bytes is the sum of their   *)
(* sizes and total_errors is 0, in the statistics and in the snapshot      *)
(* get_stats returns.                                                      *)
(***************************************************************************)
C9_CountersMatch ==
    seen.bad = 0 =>
        /\ stats.total_transfers = seen.ok
        /\ stats.total_bytes = seen.bytes
        /\ stats.total_errors = 0
        /\ tlast.op = "get_stats" => (tlast.ret = 0 /\ tlast.snap = stats)

\* Ten 4096-byte transfers and then a snapshot: 40960 bytes.
C9_Witness ==
    /\ seen.bad = 0
    /\ seen.ok = 10
    /\ tlast.op = "get_stats"
    /\ tlast.snap.total_transfers = 10
    /\ tlast.snap.total_bytes = 40960
    /\ tlast.snap.total_errors = 0

(***************************************************************************)
(* C10: once a transfer has succeeded since the last reset, min_latency is *)
(* the smallest and max_latency the largest latency recorded since that    *)
(* reset; the first sample sets both to its own latency.                   *)
(***************************************************************************)
SetMin(S) == CHOOSE x \in S : \A y \in S : x <= y

SetMax(S) == CHOOSE x \in S : \A y \in S : x >= y

C10_MinMaxOfSamples ==
    /\ seen.ok >= 1 =>
          /\ stats.min_latency_ns = SetMin(seen.lats)
          /\ stats.max_latency_ns = SetMax(seen.lats)
    /\ (tlast.op = "transfer" /\ tlast.ret = 0 /\ seen.ok = 1) =>
          /\ stats.min_latency_ns = tlast.latency_ns
          /\ stats.max_latency_ns = tlast.latency_ns

\* A third sample that lowers the minimum below an earlier, larger maximum.
C10_Witness ==
    /\ seen.ok >= 3
    /\ tlast.op = "transfer"
    /\ tlast.ret = 0
    /\ tlast.latency_ns = 10000
    /\ tlast.pre.min_latency_ns = 30000
    /\ stats.min_latency_ns = 10000
    /\ stats.max_latency_ns = 30000

(***************************************************************************)
(* C5: K callers that each complete M successful transfers on one device   *)
(* leave total_transfers = K*M and total_bytes = the sum of their sizes,   *)
(* in every interleaving: no update of the statistics is lost.             *)
(***************************************************************************)
C5_NoLostUpdates ==
    /\ mutex = MutexFree =>
          /\ stats.total_transfers = acct.done
          /\ stats.total_bytes = acct.bytes
    /\ (acct.resets = 0 /\ \A t \in Workers : thr[t].pc = "idle" /\ thr[t].left = 0) =>
          /\ stats.total_transfers = Cardinality(Workers) * MaxPerWorker
          /\ stats.total_bytes = acct.bytes
          /\ (mon.ready /\ mon.kind = "get_stats" /\ mon.cands = {stats}) =>
                /\ mon.snap.total_transfers = Cardinality(Workers) * MaxPerWorker
                /\ mon.snap.total_bytes = acct.bytes

\* Two callers have made all their transfers, of both sizes, on the Linux
\* simulation, and a snapshot taken afterwards shows all of them.
C5_Witness ==
    /\ backend = "linux"
    /\ acct.resets = 0
    /\ \A t \in Workers : thr[t].pc = "idle" /\ thr[t].left = 0
    /\ acct.done = Cardinality(Workers) * MaxPerWorker
    /\ acct.bytes % 4096 # 0
    /\ acct.bytes > 4096
    /\ mon.ready /\ mon.kind = "get_stats" /\ mon.cands = {stats}
    /\ mon.snap.total_transfers = acct.done
    /\ mon.snap.total_bytes = acct.bytes

(***************************************************************************)
(* C6: a snapshot or report taken while transfers and resets run holds the *)
(* statistics block as some complete record or reset left it, never fields *)
(* from before and after one update.                                       *)
(***************************************************************************)
C6_SnapshotIsConsistent ==
    mon.ready => mon.snap \in mon.cands

(***************************************************************************)
(* C11: a transfer that fails (for another reason than its parameters)     *)
(* adds exactly one to total_errors and leaves total_transfers,            *)
(* total_bytes and the three latency fields as they were; only a transfer  *)
(* that returns success changes the latency statistics.                    *)
(***************************************************************************)
C11_FailureCountsOneError ==
    /\ (tlast.op = "transfer" /\ tlast.ret # 0) =>
          stats = [tlast.pre EXCEPT !.total_errors = stats.total_errors]
    /\ (tlast.op = "transfer" /\ tlast.ret # 0 /\ tlast.ret \notin InvalidParameter) =>
          stats.total_errors = tlast.pre.total_errors + 1

(***************************************************************************)
(* C12: after reset_stats the block has total_transfers, total_bytes,      *)
(* total_errors and avg_latency_ns at zero and min/max unset, whatever was *)
(* recorded before; get_stats right after the reset returns that block;    *)
(* and a second reset in a row changes nothing.                            *)
(***************************************************************************)
UnsetBlock ==
    [total_transfers |-> 0, total_bytes |-> 0, total_errors |-> 0,
     avg_latency_ns |-> 0,
     min_latency_ns |-> IF backend = "windows" THEN UINT64_MAX ELSE 0,
     max_latency_ns |-> 0]

C12_ResetThenSnapshot ==
    /\ (tlast.op = "reset" /\ tlast.ret = 0) => stats = UnsetBlock
    /\ (tlast.op = "get_stats" /\ tlast.prev.op = "reset") =>
          (tlast.ret = 0 /\ tlast.snap = UnsetBlock)
    /\ (tlast.op = "reset" /\ tlast.prev.op = "reset") => stats = tlast.pre

\* A snapshot taken right after a reset that wiped recorded transfers.
C12_Witness ==
    /\ tlast.op = "get_stats"
    /\ tlast.prev.op = "reset"
    /\ tlast.prev.recorded
    /\ tlast.snap = UnsetBlock

(***************************************************************************)
(* SpecLockstep: the same calls, with the same measured latency, made on a *)
(* freshly opened device of each of the three backends.                    *)
(***************************************************************************)
InitLockstep ==
    /\ RingIdle
    /\ StatIdle
    /\ ConcIdle
    /\ trio = FreshTrio
    /\ tstep = NoStep
    /\ DevIdle
    /\ InjIdle
    /\ lat = NoDelay
    /\ CallIdle
    /\ MoreIdle

LockstepTransfer ==
    /\ tstep.n < MaxLockSteps
    /\ \E buffer \in Buffers, size \in Sizes, direction \in {0, 1},
          latency \in Latencies :
          LET k == ioctl_transfer(trio.kernel, buffer, size, direction,
                                  "none", latency)
              l == pcie_sim_transfer_linux(trio.linux, "handle", buffer, size,
                                           direction, latency)
              w == pcie_sim_transfer_impl(trio.windows, "handle", buffer, size,
                                          direction, TRUE, TRUE, latency)
          IN  /\ trio' = [kernel |-> k.stats, linux |-> l.stats,
                          windows |-> w.stats]
              /\ tstep' = [n |-> tstep.n + 1, op |-> "transfer",
                           rets |-> <<k.ret, l.ret, w.ret>>]
    /\ UNCHANGED <<ringVars, statVars, concVars, devVars, injVars, lat, call, moreVars>>

LockstepReset ==
    /\ tstep.n < MaxLockSteps
    /\ LET l == pcie_sim_reset_stats_linux(trio.linux, "handle")
           w == pcie_sim_reset_stats_impl(trio.windows, "handle", TRUE, TRUE)
       IN  /\ trio' = [kernel |-> ioctl_reset_stats(trio.kernel),
                       linux |-> l.stats, windows |-> w.stats]
           /\ tstep' = [n |-> tstep.n + 1, op |-> "reset",
                        rets |-> <<0, l.ret, w.ret>>]
    /\ UNCHANGED <<ringVars, statVars, concVars, devVars, injVars, lat, call, moreVars>>

NextLockstep == LockstepTransfer \/ LockstepReset

SpecLockstep == InitLockstep /\ [][NextLockstep]_vars

(***************************************************************************)
(* C13: fed the same transfers and resets, the kernel driver, the Linux    *)
(* simulation and the Windows simulation hold the same statistics block,   *)
(* field for field, after every step.                                      *)
(***************************************************************************)
C13_BackendsAgree ==
    tstep.n >= 1 => (trio.kernel = trio.linux /\ trio.linux = trio.windows)

\* ---------------------------------------------------------------------
\* The device array: several devices, handles, open and close
\* ---------------------------------------------------------------------

DevBackends == {"linux", "windows"}

OpenIds == DevIds \cup {MAX_DEVICES}

DevSizes == {0, 1024, 2048}

DevLatencies == {10000, 12000}

MaxDevCalls == 5

\* linux_sim_init: the first call clears every device's active flag.
linux_sim_init(inited, ds) ==
    IF inited THEN ds
    ELSE [d \in DOMAIN ds |-> [ds[d] EXCEPT !.active = FALSE]]

\* Mutant: every open zeroes the statistics of its device.
pcie_sim_open_linux_zeroing(inited, ds, device_id, malloc_ok) ==
    IF device_id < 0 \/ device_id >= MAX_DEVICES
    THEN [ret |-> PCIE_SIM_ERROR_PARAM, open |-> FALSE,
          initialized |-> inited, devices |-> ds]
    ELSE LET ds1 == linux_sim_init(inited, ds) IN
         IF ~malloc_ok
         THEN [ret |-> PCIE_SIM_ERROR_MEMORY, open |-> FALSE,
               initialized |-> TRUE, devices |-> ds1]
         ELSE [ret |-> PCIE_SIM_SUCCESS, open |-> TRUE, initialized |-> TRUE,
               devices |-> [ds1 EXCEPT ![device_id] =
                               [active |-> TRUE, stats |-> ZeroStats]]]

\* pcie_sim_open_linux: the handle is allocated after the subsystem was
\* initialised; the statistics are zeroed only if the device is not active.
pcie_sim_open_linux(inited, ds, device_id, malloc_ok) ==
    IF device_id < 0 \/ device_id >= MAX_DEVICES
    THEN [ret |-> PCIE_SIM_ERROR_PARAM, open |-> FALSE,
          initialized |-> inited, devices |-> ds]
    ELSE LET ds1 == linux_sim_init(inited, ds) IN
         IF ~malloc_ok
         THEN [ret |-> PCIE_SIM_ERROR_MEMORY, open |-> FALSE,
               initialized |-> TRUE, devices |-> ds1]
         ELSE [ret |-> PCIE_SIM_SUCCESS, open |-> TRUE, initialized |-> TRUE,
               devices |->
                   IF ds1[device_id].active THEN ds1
                   ELSE [ds1 EXCEPT ![device_id] =
                            [active |-> TRUE, stats |-> ZeroStats]]]

\* pcie_sim_close_linux: frees the handle and touches no device state.
pcie_sim_close_linux(ds, device_id) ==
    [ret |-> PCIE_SIM_SUCCESS, devices |-> ds]

\* windows_sim_init: the first call initialises every device's statistics;
\* it fails if a device mutex cannot be created (here: the first one).
windows_sim_init(inited, ds, mutex_ok) ==
    IF inited THEN [ret |-> 0, initialized |-> TRUE, devices |-> ds]
    ELSE IF ~mutex_ok THEN [ret |-> -1, initialized |-> FALSE, devices |-> ds]
    ELSE [ret |-> 0, initialized |-> TRUE,
          devices |-> [d \in DOMAIN ds |->
                          [active |-> FALSE, stats |-> WindowsZeroStats]]]

\* pcie_sim_open_impl: a device that is active cannot be opened again.
pcie_sim_open_impl(inited, ds, device_id, mutex_ok, malloc_ok) ==
    IF device_id < 0 \/ device_id >= MAX_DEVICES
    THEN [ret |-> PCIE_SIM_ERROR_PARAM, open |-> FALSE,
          initialized |-> inited, devices |-> ds]
    ELSE LET i == windows_sim_init(inited, ds, mutex_ok) IN
         IF i.ret # 0
         THEN [ret |-> PCIE_SIM_ERROR_SYSTEM, open |-> FALSE,
               initialized |-> i.initialized, devices |-> i.devices]
         ELSE IF i.devices[device_id].active
         THEN [ret |-> PCIE_SIM_ERROR_DEVICE, open |-> FALSE,
               initialized |-> TRUE, devices |-> i.devices]
         ELSE IF ~malloc_ok
         THEN [ret |-> PCIE_SIM_ERROR_MEMORY, open |-> FALSE,
               initialized |-> TRUE,
               devices |-> [i.devices EXCEPT ![device_id].active = FALSE]]
         ELSE [ret |-> PCIE_SIM_SUCCESS, open |-> TRUE, initialized |-> TRUE,
               devices |-> [i.devices EXCEPT ![device_id].active = TRUE]]

\* pcie_sim_close_impl: marks the device inactive and frees the handle.
pcie_sim_close_impl(ds, device_id) ==
    [ret |-> PCIE_SIM_SUCCESS,
     devices |-> [ds EXCEPT ![device_id].active = FALSE]]

\* The device a handle addresses, with every device taken for the first.
DeviceOf_first(h) == 0

\* The device a handle addresses: g_sim_devices[handle->device_id].
DeviceOf(h) == h.device_id

InitDevices ==
    /\ RingIdle
    /\ ConcIdle
    /\ backend \in DevBackends
    /\ stats = OpenStats(backend)
    /\ seen = NoneSeen
    /\ tlast = NoCall
    /\ trio = FreshTrio
    /\ tstep = NoStep
    /\ DevIdle
    /\ InjIdle
    /\ lat = NoDelay
    /\ CallIdle
    /\ MoreIdle

DevFrame ==
    UNCHANGED <<ringVars, statVars, concVars, trio, tstep, injVars, lat, call, moreVars>>

DevDone(c, op, d, ret, snap, cold) ==
    dlast' = [op |-> op, caller |-> c, device_id |-> d, ret |-> ret,
              snap |-> snap, pre |-> g_devices, cold |-> cold,
              n |-> dlast.n + 1]

\* A caller without a handle opens a device.
DevOpen(c) ==
    /\ ~hnd[c].open
    /\ dlast.n < MaxDevCalls
    /\ \E device_id \in OpenIds, mutex_ok \in BOOLEAN, malloc_ok \in BOOLEAN :
          LET r == IF backend = "windows"
                   THEN pcie_sim_open_impl(g_initialized, g_devices, device_id,
                                           mutex_ok, malloc_ok)
                   ELSE pcie_sim_open_linux(g_initialized, g_devices,
                                            device_id, malloc_ok)
              zeroed(d) == r.devices[d].stats # g_devices[d].stats
                           \/ (r.open /\ d = device_id /\ backend = "linux"
                               /\ ~g_devices[d].active)
          IN /\ g_initialized' = r.initialized
             /\ g_devices' = r.devices
             /\ hnd' = [hnd EXCEPT ![c] =
                           IF r.open
                           THEN [NoHandle EXCEPT !.open = TRUE,
                                                 !.device_id = device_id]
                           ELSE NoHandle]
             /\ own' = [d \in DevIds |->
                           LET o == IF zeroed(d)
                                    THEN [own[d] EXCEPT !.ok = 0, !.bytes = 0]
                                    ELSE own[d]
                           IN IF r.open /\ d = device_id
                              THEN [o EXCEPT !.opened = TRUE,
                                             !.users = own[d].users + 1,
                                             !.cold = own[d].opened
                                                      /\ own[d].users = 0]
                              ELSE o]
             /\ DevDone(c, "open", IF device_id \in DevIds THEN device_id ELSE 0,
                        r.ret, ZeroStats, FALSE)
    /\ DevFrame

\* A caller that is not in a transfer closes its handle.
DevClose(c) ==
    /\ hnd[c].open
    /\ hnd[c].pc = "idle"
    /\ dlast.n < MaxDevCalls
    /\ LET d == DeviceOf(hnd[c])
           r == IF backend = "windows"
                THEN pcie_sim_close_impl(g_devices, d)
                ELSE pcie_sim_close_linux(g_devices, d)
       IN /\ g_devices' = r.devices
          /\ hnd' = [hnd EXCEPT ![c] = NoHandle]
          /\ own' = [own EXCEPT ![d].users = own[d].users - 1,
                                ![d].cold = FALSE]
          /\ DevDone(c, "close", d, r.ret, ZeroStats, FALSE)
    /\ UNCHANGED g_initialized
    /\ DevFrame

\* The transfer of a caller on the statistics block of its device.
DevTransferOn(st, size, latency) ==
    IF backend = "windows"
    THEN pcie_sim_transfer_impl(st, "handle", "buf", size, PCIE_SIM_TO_DEVICE,
                                TRUE, TRUE, latency)
    ELSE pcie_sim_transfer_linux(st, "handle", "buf", size,
                                 PCIE_SIM_TO_DEVICE, latency)

\* A caller starts a transfer: the parameters are checked, and a valid
\* transfer goes on to the simulated delay, other callers running meanwhile.
DevBegin(c) ==
    /\ hnd[c].open
    /\ hnd[c].pc = "idle"
    /\ dlast.n < MaxDevCalls
    /\ \E size \in DevSizes, latency \in DevLatencies :
          LET d == DeviceOf(hnd[c])
              r == DevTransferOn(g_devices[d].stats, size, latency)
          IN IF r.done
             THEN /\ hnd' = [hnd EXCEPT ![c].pc = "sleep", ![c].size = size,
                                        ![c].latency = latency]
                  /\ UNCHANGED <<own, dlast>>
             ELSE /\ DevDone(c, "transfer", d, r.ret, ZeroStats, FALSE)
                  /\ UNCHANGED <<hnd, own>>
    /\ UNCHANGED <<g_initialized, g_devices>>
    /\ DevFrame

\* The delay is over: the transfer is recorded under the device's lock.
DevRecord(c) ==
    /\ hnd[c].open
    /\ hnd[c].pc = "sleep"
    /\ LET d == DeviceOf(hnd[c])
           r == DevTransferOn(g_devices[d].stats, hnd[c].size, hnd[c].latency)
       IN /\ g_devices' = [g_devices EXCEPT ![d].stats = r.stats]
          /\ hnd' = [hnd EXCEPT ![c].pc = "idle", ![c].size = 0,
                                ![c].latency = 0]
          /\ own' = [own EXCEPT ![hnd[c].device_id].ok = @ + 1,
                                ![hnd[c].device_id].bytes = @ + hnd[c].size,
                                ![hnd[c].device_id].cold = FALSE]
          /\ DevDone(c, "transfer", hnd[c].device_id, r.ret, ZeroStats, FALSE)
    /\ UNCHANGED g_initialized
    /\ DevFrame

\* A caller reads the statistics of its device.
DevGetStats(c) ==
    /\ hnd[c].open
    /\ hnd[c].pc = "idle"
    /\ dlast.n < MaxDevCalls
    /\ LET d == DeviceOf(hnd[c])
           r == IF backend = "windows"
                THEN pcie_sim_get_stats_impl(g_devices[d].stats, "handle",
                                             g_devices[d].active, TRUE)
                ELSE pcie_sim_get_stats_linux(g_devices[d].stats, "handle")
       IN /\ own' = [own EXCEPT ![hnd[c].device_id].cold = FALSE]
          /\ DevDone(c, "get_stats", hnd[c].device_id, r.ret, r.snap,
                     own[hnd[c].device_id].cold)
    /\ UNCHANGED <<g_initialized, g_devices, hnd>>
    /\ DevFrame

\* A caller resets the statistics of its device.
DevReset(c) ==
    /\ hnd[c].open
    /\ hnd[c].pc = "idle"
    /\ dlast.n < MaxDevCalls
    /\ LET d == DeviceOf(hnd[c])
           r == IF backend = "windows"
                THEN pcie_sim_reset_stats_impl(g_devices[d].stats, "handle",
                                               g_devices[d].active, TRUE)
                ELSE pcie_sim_reset_stats_linux(g_devices[d].stats, "handle")
       IN /\ g_devices' = [g_devices EXCEPT ![d].stats = r.stats]
          /\ own' = [own EXCEPT ![hnd[c].device_id].ok = 0,
                                ![hnd[c].device_id].bytes = 0,
                                ![hnd[c].device_id].cold = FALSE]
          /\ DevDone(c, "reset", hnd[c].device_id, r.ret, ZeroStats, FALSE)
    /\ UNCHANGED <<g_initialized, hnd>>
    /\ DevFrame

NextDevices ==
    \/ \E c \in Callers : DevOpen(c)
    \/ \E c \in Callers : DevClose(c)
    \/ \E c \in Callers : DevBegin(c)
    \/ \E c \in Callers : DevRecord(c)
    \/ \E c \in Callers : DevGetStats(c)
    \/ \E c \in Callers : DevReset(c)

SpecDevices == InitDevices /\ [][NextDevices]_vars

\* C14: a transfer or a reset on one device leaves the statistics of every
\* other device as they were, other callers running in between, and the
\* counters of each device are those of the transfers recorded on it since
\* its statistics were last zeroed.
C14_DevicesIndependent ==
    /\ dlast.op \in {"transfer", "reset"} =>
          \A j \in DevIds \ {dlast.device_id} : g_devices[j] = dlast.pre[j]
    /\ \A d \in DevIds :
          /\ g_devices[d].stats.total_transfers = own[d].ok
          /\ g_devices[d].stats.total_bytes = own[d].bytes

\* Both devices carry transfers of their own, in different numbers and of
\* different sizes, and the last one came while another caller was in a
\* transfer on the other device.
C14_Witness ==
    /\ dlast.op = "transfer" /\ dlast.ret = 0
    /\ own[0].ok = 1 /\ own[1].ok = 2
    /\ own[0].bytes # own[1].bytes
    /\ \E c \in Callers : hnd[c].pc = "sleep" /\ hnd[c].device_id # dlast.device_id

\* C15: statistics do not outlive the handle: when every handle of a device
\* was closed and the device is opened again, the first snapshot through the
\* new handle shows no transfers, no bytes, no errors and no latency
\* (the minimum at zero or at its unset marker).
C15_ReopenedStartsClean ==
    (dlast.op = "get_stats" /\ dlast.cold /\ dlast.ret = PCIE_SIM_SUCCESS) =>
        /\ dlast.snap.total_transfers = 0
        /\ dlast.snap.total_bytes = 0
        /\ dlast.snap.total_errors = 0
        /\ dlast.snap.avg_latency_ns = 0
        /\ dlast.snap.max_latency_ns = 0
        /\ dlast.snap.min_latency_ns \in {0, UINT64_MAX}

\* ---------------------------------------------------------------------
\* The kernel device: its transmit ring next to its statistics block
\* ---------------------------------------------------------------------

MaxTxCalls == 2

\* struct pcie_sim_device after probe: an empty tx_ring and zeroed stats.
InitTx ==
    /\ ring = init_ring(RingCap)
    /\ now = 0
    /\ subLog = <<>>
    /\ compLog = <<>>
    /\ rlast = NoRingCall
    /\ backend = "kernel"
    /\ stats = ZeroStats
    /\ seen = NoneSeen
    /\ tlast = NoCall
    /\ ConcIdle
    /\ OtherIdle

TxSubmit ==
    /\ ring.submissions < MaxSubmits \/ ring.count = ring.size
    /\ ring.overruns < MaxOverruns
    /\ \E l \in Lengths : RingSubmit(4096, l, 1)

TxComplete ==
    /\ ring.completions < MaxFillCompletes
    /\ RingComplete(1)

TxTransfer ==
    /\ Calls < MaxTxCalls
    /\ KernelTransfer({"buf"}, {0, 64}, {PCIE_SIM_TO_DEVICE}, {"none", "enomem"},
                      {10000})

\* PCIE_SIM_IOC_RESET_STATS on the same device.
TxReset == KernelReset

NextTx == TxSubmit \/ TxComplete \/ TxTransfer \/ TxReset

SpecTx == InitTx /\ [][NextTx]_vars

\* C16: a submit that is rejected because the ring is full returns -ENOSPC,
\* adds one to the ring's overrun counter and changes nothing else: not the
\* rest of the ring, and neither total_errors nor any other field of the
\* device's statistics block.
C16_OverrunStaysInRing ==
    [][(/\ rlast'.op = "submit"
        /\ rlast'.preCount >= ring.size
        /\ <<ring, rlast>>' # <<ring, rlast>>)
       => /\ rlast'.ret = -ENOSPC
          /\ ring' = [ring EXCEPT !.overruns = @ + 1]
          /\ stats' = stats]_vars

\* A full ring has rejected a submit on a device whose statistics block
\* holds a recorded transfer and a recorded error.
C16_Witness ==
    /\ rlast.op = "submit" /\ rlast.ret = -ENOSPC
    /\ ring.overruns = 1
    /\ stats.total_transfers = 1 /\ stats.total_errors = 1

\* ---------------------------------------------------------------------
\* Error injection: the configured scenario, the ErrorInjector and the
\* pattern test that drives transfers through it
\* ---------------------------------------------------------------------

\* The scenarios pcie_sim_parse_error_scenario returns.
Scenarios == 0 .. 3

\* Values the generator of should_inject_error draws, in thousandths.
Draws == {0, 7, 15, 500}

PatternSizes == {1024, 65536}

PatternLatencies == {10000}

MaxPatternTransfers == 3

\* pcie_sim_config_set_error_scenario: the scenario is stored before the
\* switch; an unknown scenario returns -1 with the rest as it was.
pcie_sim_config_set_error_scenario(config, scenario) ==
    LET c == [config EXCEPT !.scenario = scenario] IN
    CASE scenario = PCIE_SIM_ERROR_SCENARIO_NONE ->
           [ret |-> 0, config |-> [c EXCEPT !.probability = 0,
                                            !.enable_errors = FALSE]]
      [] scenario = PCIE_SIM_ERROR_SCENARIO_TIMEOUT ->
           [ret |-> 0, config |-> [c EXCEPT !.probability = 10,
                                            !.recovery_time_ms = 100,
                                            !.enable_errors = TRUE]]
      [] scenario = PCIE_SIM_ERROR_SCENARIO_CORRUPTION ->
           [ret |-> 0, config |-> [c EXCEPT !.probability = 5,
                                            !.recovery_time_ms = 50,
                                            !.enable_errors = TRUE]]
      [] scenario = PCIE_SIM_ERROR_SCENARIO_OVERRUN ->
           [ret |-> 0, config |-> [c EXCEPT !.probability = 20,
                                            !.recovery_time_ms = 200,
                                            !.enable_errors = TRUE]]
      [] OTHER -> [ret |-> -1, config |-> c]

\* ErrorInjector::should_inject_error: dist_(rng_) < probability_.
should_inject_error(draw, probability_) == draw < probability_

\* Mutant: corruption is given the delay of a timeout.
simulate_error_delay_full(scenario_) ==
    CASE scenario_ = PCIE_SIM_ERROR_SCENARIO_TIMEOUT -> 100
      [] scenario_ = PCIE_SIM_ERROR_SCENARIO_CORRUPTION -> 100
      [] scenario_ = PCIE_SIM_ERROR_SCENARIO_OVERRUN -> 200
      [] OTHER -> 0

\* ErrorInjector::simulate_error_delay: the milliseconds slept.
simulate_error_delay(scenario_) ==
    CASE scenario_ = PCIE_SIM_ERROR_SCENARIO_TIMEOUT -> 100
      [] scenario_ = PCIE_SIM_ERROR_SCENARIO_CORRUPTION -> 50
      [] scenario_ = PCIE_SIM_ERROR_SCENARIO_OVERRUN -> 200
      [] OTHER -> 0

\* pcie_sim_error_scenario_to_string, as get_error_type reports it.
pcie_sim_error_scenario_to_string(scenario) ==
    CASE scenario = PCIE_SIM_ERROR_SCENARIO_NONE -> "none"
      [] scenario = PCIE_SIM_ERROR_SCENARIO_TIMEOUT -> "timeout"
      [] scenario = PCIE_SIM_ERROR_SCENARIO_CORRUPTION -> "corruption"
      [] scenario = PCIE_SIM_ERROR_SCENARIO_OVERRUN -> "overrun"
      [] OTHER -> "unknown"

InitInject ==
    /\ RingIdle
    /\ ConcIdle
    /\ backend \in DevBackends
    /\ stats = OpenStats(backend)
    /\ seen = NoneSeen
    /\ tlast = NoCall
    /\ trio = FreshTrio
    /\ tstep = NoStep
    /\ DevIdle
    /\ InjIdle
    /\ lat = NoDelay
    /\ CallIdle
    /\ MoreIdle

InjFrame ==
    UNCHANGED <<ringVars, concVars, trio, tstep, devVars, lat, call, moreVars>>

\* The options are applied to the configuration before the tests run.
SetErrorScenario ==
    /\ ~run.started
    /\ \E scenario \in Scenarios :
          cfg' = pcie_sim_config_set_error_scenario(cfg, scenario).config
    /\ UNCHANGED <<run, statVars>>
    /\ InjFrame

\* run_pattern_tests: the injector is built from the configuration, if a
\* scenario is configured.
RunPatternTests ==
    /\ ~run.started
    /\ run' = [run EXCEPT
                 !.started = TRUE,
                 !.injector = cfg.scenario # PCIE_SIM_ERROR_SCENARIO_NONE,
                 !.scenario_ = cfg.scenario,
                 !.probability_ = cfg.probability]
    /\ UNCHANGED <<cfg, statVars>>
    /\ InjFrame

\* One iteration of the loop of pattern_based_transfer_test.
PatternTransfer ==
    /\ run.started
    /\ run.n < MaxPatternTransfers
    /\ \E transfer_size \in PatternSizes, draw \in Draws,
          latency \in PatternLatencies :
          LET inject_error == run.injector
                              /\ should_inject_error(draw, run.probability_)
              res == DevTransferOn(stats, transfer_size, latency)
          IN /\ TransferEffect(res, "buf", transfer_size, PCIE_SIM_TO_DEVICE,
                               latency)
             /\ run' = [run EXCEPT
                          !.n = @ + 1,
                          !.inject_error = inject_error,
                          !.extra_ms = IF inject_error
                                       THEN simulate_error_delay(run.scenario_)
                                       ELSE 0,
                          !.error_status =
                              IF res.ret # PCIE_SIM_SUCCESS THEN "EXCEPTION"
                              ELSE IF inject_error
                              THEN pcie_sim_error_scenario_to_string(run.scenario_)
                              ELSE "SUCCESS",
                          !.latency_ns =
                              IF res.ret # PCIE_SIM_SUCCESS THEN latency
                              ELSE IF inject_error
                              THEN res.latency_ns + 50000
                              ELSE res.latency_ns]
    /\ UNCHANGED <<backend, cfg>>
    /\ InjFrame

NextInject == SetErrorScenario \/ RunPatternTests \/ PatternTransfer

SpecInject == InitInject /\ [][NextInject]_vars

\* C17: a transfer on which a fault was injected went through the fault's
\* extra delay and the transfer itself, and is recorded as an error:
\* total_errors one higher, total_transfers, total_bytes and the latency
\* statistics as before.
C17_InjectedFaultIsAnError ==
    (tlast.op = "transfer" /\ run.inject_error) =>
        /\ run.extra_ms = simulate_error_delay(run.scenario_)
        /\ stats = [tlast.pre EXCEPT !.total_errors = @ + 1]

\* C17, what the code does instead: a transfer on which a fault was
\* injected sleeps the fault's delay and is then recorded as a success.
C17_InjectedFaultRecordedAsSuccess ==
    (tlast.op = "transfer" /\ run.inject_error) =>
        /\ run.extra_ms = simulate_error_delay(run.scenario_)
        /\ tlast.ret = PCIE_SIM_SUCCESS
        /\ stats.total_transfers = tlast.pre.total_transfers + 1
        /\ stats.total_errors = tlast.pre.total_errors

\* C18: the extra delay of a triggered fault is a function of the scenario
\* alone: 100 ms for timeout, 50 ms for corruption, 200 ms for overrun,
\* whatever the size and the drawn number; with scenario none the
\* probability is 0, error injection is disabled, no injector is built and
\* no transfer is delayed.
C18_DelayByScenario ==
    /\ (tlast.op = "transfer" /\ run.inject_error) =>
          /\ run.scenario_ = PCIE_SIM_ERROR_SCENARIO_TIMEOUT => run.extra_ms = 100
          /\ run.scenario_ = PCIE_SIM_ERROR_SCENARIO_CORRUPTION => run.extra_ms = 50
          /\ run.scenario_ = PCIE_SIM_ERROR_SCENARIO_OVERRUN => run.extra_ms = 200
    /\ cfg.scenario = PCIE_SIM_ERROR_SCENARIO_NONE =>
          /\ cfg.probability = 0
          /\ ~cfg.enable_errors
          /\ run.started => (~run.injector /\ ~run.inject_error /\ run.extra_ms = 0)
    /\ (run.started /\ run.scenario_ = PCIE_SIM_ERROR_SCENARIO_NONE) =>
          (~run.inject_error /\ run.extra_ms = 0)
    /\ ~run.inject_error => run.extra_ms = 0

\* A corruption fault has triggered on a transfer, after the scenario had
\* been changed from another one.
C18_Witness ==
    /\ tlast.op = "transfer" /\ run.inject_error
    /\ run.scenario_ = PCIE_SIM_ERROR_SCENARIO_CORRUPTION
    /\ run.extra_ms = 50
    /\ run.n = 2

\* Scenario none was configured after another scenario and the run has made
\* its transfers without any delay.
C18_WitnessNone ==
    /\ cfg.scenario = PCIE_SIM_ERROR_SCENARIO_NONE
    /\ cfg.recovery_time_ms = 100
    /\ run.started /\ run.n = 2 /\ ~run.injector

\* ---------------------------------------------------------------------
\* The computed transfer delay of the three builds
\* ---------------------------------------------------------------------

LatSizes == {1, 64, 1024, 4096, 65536, 1048576, 1048577, 2097152, 4194304}

\* Values of get_random_u32_below(20) and of rand().
Jitters == {0, 7, 19}

Rands == {0, 3, 6999}

MaxDelays == 2

\* pcie_sim_transfer_linux: transfer_latency in ns, before the delay.
linux_transfer_latency(size, direction) ==
    LET base_latency_per_mb == 10000
        mb == (size + 1024 * 1024 - 1) \div (1024 * 1024)
        size_mb == IF mb = 0 THEN 1 ELSE mb
        transfer_latency == base_latency_per_mb * size_mb
    IN IF direction = PCIE_SIM_FROM_DEVICE
       THEN (transfer_latency * 12) \div 10
       ELSE transfer_latency

\* Mutant: a descriptor waiting in the ring adds to the delay.
kernel_simulate_transfer_delay_loaded(size, jitter_us) ==
    LET base_delay_us == 10
        size_delay_us == size \div 1024
    IN base_delay_us + size_delay_us + jitter_us + ring.count

\* simulate_transfer_delay of the kernel driver: total_delay in us; the
\* direction of the request is not an argument.
kernel_simulate_transfer_delay(size, jitter_us) ==
    LET base_delay_us == 10
        size_delay_us == size \div 1024
    IN base_delay_us + size_delay_us + jitter_us

\* simulate_transfer_delay of the Windows simulation: total_delay_us; the
\* direction of the transfer is not an argument.
windows_simulate_transfer_delay(size, rand1, rand2) ==
    LET base_delay_us == 1 + (rand1 % 10)
        throughput_delay_us == size \div (1000 + (rand2 % 7000))
    IN base_delay_us + throughput_delay_us

DelayFrame == UNCHANGED <<ringVars, statVars, concVars, trio, tstep, devVars,
                          injVars, call, moreVars>>

DelayDone(build, size, to, from) ==
    /\ lat' = [n |-> lat.n + 1, build |-> build, size |-> size,
               to_device |-> to, from_device |-> from]
    /\ DelayFrame

\* The delay of one size in both directions, on each build, with the same
\* random numbers for both directions where the build draws any.
LinuxDelay ==
    /\ lat.n < MaxDelays
    /\ \E size \in LatSizes :
          DelayDone("linux", size,
                    linux_transfer_latency(size, PCIE_SIM_TO_DEVICE),
                    linux_transfer_latency(size, PCIE_SIM_FROM_DEVICE))

KernelDelay ==
    /\ lat.n < MaxDelays
    /\ \E size \in LatSizes, jitter \in Jitters :
          size <= MAX_TRANSFER_SIZE
          /\ DelayDone("kernel", size,
                       kernel_simulate_transfer_delay(size, jitter),
                       kernel_simulate_transfer_delay(size, jitter))

WindowsDelay ==
    /\ lat.n < MaxDelays
    /\ \E size \in LatSizes, rand1 \in Rands, rand2 \in Rands :
          size <= WIN_MAX_SIZE
          /\ DelayDone("windows", size,
                       windows_simulate_transfer_delay(size, rand1, rand2),
                       windows_simulate_transfer_delay(size, rand1, rand2))

InitDelay == RingIdle /\ StatIdle /\ ConcIdle /\ OtherIdle

NextDelay == LinuxDelay \/ KernelDelay \/ WindowsDelay

SpecDelay == InitDelay /\ [][NextDelay]_vars

\* C19: for every size and in every build, the delay computed for a
\* from_device transfer is the to_device delay of the same size times 12
\* over 10.
C19_ReadsCostTwentyPercentMore ==
    lat.n > 0 => lat.from_device = (lat.to_device * 12) \div 10

\* The same, for the Linux simulation alone, where it holds.
C19_LinuxReadsCostMore ==
    (lat.n > 0 /\ lat.build = "linux") =>
        lat.from_device = (lat.to_device * 12) \div 10

\* ---------------------------------------------------------------------
\* Threads that call pcie_sim_transfer on one device, and whether every
\* call returns
\* ---------------------------------------------------------------------

LiveBackends == {"linux", "windows", "kernel"}

LiveSizes == {0, 4096}

LiveLatency == 10000

ERESTARTSYS == 512

MaxLiveCalls == 3

\* The calls the threads have made so far.
RECURSIVE SumCalls(_)
SumCalls(S) ==
    IF S = {} THEN 0
    ELSE LET t == CHOOSE x \in S : TRUE
         IN call[t].calls + SumCalls(S \ {t})

CallsMade == SumCalls(Threads)

\* WaitForSingleObject(dev->mutex, 5000) that returns WAIT_OBJECT_0.
WaitForSingleObject(t) == mutex = MutexFree /\ mutex' = t

ReleaseMutex(t) == mutex' = MutexFree

InitLive ==
    /\ RingIdle
    /\ ConcIdle
    /\ backend \in LiveBackends
    /\ stats = OpenStats(backend)
    /\ seen = NoneSeen
    /\ tlast = NoCall
    /\ trio = FreshTrio
    /\ tstep = NoStep
    /\ DevIdle
    /\ InjIdle
    /\ lat = NoDelay
    /\ CallIdle
    /\ MoreIdle

LiveFrame == UNCHANGED <<backend, seen, tlast, ringVars, thr, mon, acct, trio,
                         tstep, devVars, injVars, lat, moreVars>>

\* The transfer of the build that runs, on the shared statistics block.
LiveTransferOn(size, got_mutex) ==
    CASE backend = "linux" ->
           pcie_sim_transfer_linux(stats, "handle", "buf", size,
                                   PCIE_SIM_TO_DEVICE, LiveLatency)
      [] backend = "windows" ->
           pcie_sim_transfer_impl(stats, "handle", "buf", size,
                                  PCIE_SIM_TO_DEVICE, TRUE, got_mutex,
                                  LiveLatency)
      [] OTHER ->
           ioctl_transfer(stats, "buf", size, PCIE_SIM_TO_DEVICE, "none",
                          LiveLatency)

\* The call of thread t returns ret to its caller.
LiveReturn(t, ret) ==
    call' = [call EXCEPT ![t].pc = "idle", ![t].size = 0,
                         ![t].returns = @ + 1, ![t].ret = ret]

\* Thread t calls pcie_sim_transfer.  The simulations check the arguments
\* first and return at once if they are bad; the driver takes the mutex
\* before it looks at the request.
LiveCall(t) ==
    /\ call[t].pc = "idle"
    /\ CallsMade < MaxLiveCalls
    /\ \E size \in LiveSizes :
          LET res == LiveTransferOn(size, TRUE)
              started == [call[t] EXCEPT !.calls = @ + 1, !.size = size,
                                         !.waited = FALSE]
          IN IF backend # "kernel" /\ res.ret = PCIE_SIM_ERROR_PARAM
             THEN call' = [call EXCEPT ![t] =
                              [started EXCEPT !.size = 0, !.returns = @ + 1,
                                              !.ret = res.ret]]
             ELSE call' = [call EXCEPT ![t] =
                              [started EXCEPT
                                 !.pc = IF backend = "linux" THEN "delay"
                                        ELSE "wait"]]
    /\ UNCHANGED <<mutex, stats>>
    /\ LiveFrame

\* linux_sim_delay returns: nanosleep of the computed latency is over.
LiveDelayEnd(t) ==
    /\ backend = "linux"
    /\ call[t].pc = "delay"
    /\ call' = [call EXCEPT ![t].pc = "wait"]
    /\ UNCHANGED <<mutex, stats>>
    /\ LiveFrame

\* Thread t gets the device mutex; the others that wait for it go on
\* waiting.
LiveAcquire(t) ==
    /\ call[t].pc = "wait"
    /\ CASE backend = "linux" -> pthread_mutex_lock(t)
         [] backend = "windows" -> WaitForSingleObject(t)
         [] OTHER -> mutex_lock_interruptible(t)
    /\ call' = [u \in Threads |->
                  IF u = t THEN [call[u] EXCEPT !.pc = "held"]
                  ELSE IF call[u].pc = "wait"
                  THEN [call[u] EXCEPT !.waited = TRUE]
                  ELSE call[u]]
    /\ UNCHANGED stats
    /\ LiveFrame

\* WaitForSingleObject gives up after 5000 ms with the mutex still taken.
LiveTimeout(t) ==
    /\ backend = "windows"
    /\ call[t].pc = "wait"
    /\ mutex # MutexFree
    /\ LiveReturn(t, LiveTransferOn(call[t].size, FALSE).ret)
    /\ UNCHANGED <<mutex, stats>>
    /\ LiveFrame

\* A signal ends mutex_lock_interruptible while the mutex is taken.
LiveSignal(t) ==
    /\ backend = "kernel"
    /\ call[t].pc = "wait"
    /\ mutex # MutexFree
    /\ LiveReturn(t, -ERESTARTSYS)
    /\ UNCHANGED <<mutex, stats>>
    /\ LiveFrame

\* With the mutex held the transfer is made and recorded (by the driver and
\* the Windows simulation the delay runs here too), the mutex is released
\* and the call returns.
LiveFinish(t) ==
    /\ call[t].pc = "held"
    /\ LET res == LiveTransferOn(call[t].size, TRUE)
       IN /\ stats' = res.stats
          /\ LiveReturn(t, res.ret)
    /\ CASE backend = "linux" -> pthread_mutex_unlock(t)
         [] backend = "windows" -> ReleaseMutex(t)
         [] OTHER -> mutex_unlock(t)
    /\ LiveFrame

NextLive ==
    \/ \E t \in Threads : LiveCall(t)
    \/ \E t \in Threads : LiveDelayEnd(t)
    \/ \E t \in Threads : LiveAcquire(t)
    \/ \E t \in Threads : LiveTimeout(t)
    \/ \E t \in Threads : LiveSignal(t)
    \/ \E t \in Threads : LiveFinish(t)

\* A thread inside a call keeps running: its sleep ends and what it does
\* with the mutex held gets done.  A thread that waits for a pthread or a
\* kernel mutex gets it if it is free again and again; a thread in
\* WaitForSingleObject either gets the mutex or its timer runs out.
LiveFairness ==
    \A t \in Threads :
        /\ WF_vars(LiveDelayEnd(t))
        /\ WF_vars(LiveFinish(t))
        /\ SF_vars(backend # "windows" /\ LiveAcquire(t))
        /\ WF_vars(LiveAcquire(t) \/ LiveTimeout(t))

SpecLiveSteps == InitLive /\ [][NextLive]_vars

SpecLive == InitLive /\ [][NextLive]_vars /\ LiveFairness

\* C20: under fair scheduling every transfer call returns, and returns
\* once: a thread has at most one call that has not returned, it is inside
\* the call exactly then, and whenever a call is open it is eventually
\* closed by a return, however many threads call on the device.
C20_EveryCallReturns ==
    /\ [](\A t \in Threads :
             /\ call[t].returns <= call[t].calls
             /\ call[t].calls <= call[t].returns + 1
             /\ (call[t].pc = "idle") = (call[t].returns = call[t].calls))
    /\ \A t \in Threads :
          (call[t].calls > call[t].returns) ~> (call[t].returns = call[t].calls)

\* A thread that had to wait for the mutex while another thread held it
\* has got its successful return, with the third thread inside a call.
C20_Witness ==
    \E t \in Threads :
        /\ call[t].pc = "idle" /\ call[t].waited
        /\ call[t].returns = 1 /\ call[t].ret = PCIE_SIM_SUCCESS
        /\ \E u \in Threads \ {t} : call[u].pc \in {"wait", "held"}

\* C30: in every reachable state of a ring head = (tail + count) mod size,
\* head and tail lie in 0 .. size - 1, and head = tail holds exactly when
\* the ring is empty or completely full.
C30_HeadTailCount ==
    /\ ring.head = (ring.tail + ring.count) % ring.size
    /\ ring.head \in 0 .. ring.size - 1
    /\ ring.tail \in 0 .. ring.size - 1
    /\ (ring.head = ring.tail) = (ring.count = 0 \/ ring.count = ring.size)

\* A full ring whose indices have wrapped and meet away from slot 0.
C30_Witness ==
    /\ ring.count = ring.size
    /\ ring.head = ring.tail
    /\ ring.head # 0
    /\ ring.submissions > ring.size

\* C29: a submit reports the ring full (-ENOSPC) exactly when the slot
\* that follows head is tail, (head + 1) % size = tail, taken on the ring
\* as the submit finds it.
C29_FullWhenNextIsTail ==
    [][(rlast'.op = "submit" /\ <<ring, rlast>>' # <<ring, rlast>>)
       => ((rlast'.ret = -ENOSPC) = ((ring.head + 1) % ring.size = ring.tail))]_vars

\* What the code does: a submit is rejected exactly when count has reached
\* size, one slot later than the test on the indices.
C29_FullWhenCountIsSize ==
    [][(rlast'.op = "submit" /\ <<ring, rlast>>' # <<ring, rlast>>)
       => ((rlast'.ret = -ENOSPC) = (ring.count >= ring.size))]_vars

\* The slots that hold a descriptor submitted and not yet completed.
LiveSlots(r) == {(r.tail + i) % r.size : i \in 0 .. r.count - 1}

\* C23: a successful submit writes the descriptor of the slot at head and
\* no other, and that slot holds no descriptor that is still waiting for
\* its completion; a successful complete changes the status of the
\* descriptor at tail, the oldest one waiting, and nothing else of any
\* descriptor; no other step writes a descriptor.
C23_DescriptorOwnership ==
    [][/\ ring'.submissions # ring.submissions =>
             /\ ring.head \notin LiveSlots(ring)
             /\ \A s \in DOMAIN ring.descriptors \ {ring.head} :
                   ring'.descriptors[s] = ring.descriptors[s]
             /\ ring'.descriptors[ring.head].length = rlast'.length
             /\ ring'.descriptors[ring.head].buffer_addr \in Addrs
             /\ ring'.descriptors[ring.head].flags \in FlagSet
             /\ ring'.descriptors[ring.head].timestamp = now
             /\ ring'.descriptors[ring.head].status = 0
       /\ ring'.completions # ring.completions =>
             /\ ring.tail \in LiveSlots(ring)
             /\ \A s \in LiveSlots(ring) :
                   ring.descriptors[ring.tail].timestamp
                       <= ring.descriptors[s].timestamp
             /\ ring'.descriptors =
                   [ring.descriptors EXCEPT
                      ![ring.tail].status = ring'.descriptors[ring.tail].status]
       /\ (ring'.submissions = ring.submissions
           /\ ring'.completions = ring.completions) =>
             ring'.descriptors = ring.descriptors]_vars

\* A complete has just marked a descriptor whose slot had been used before,
\* while a later descriptor is still waiting with a different length.
C23_Witness ==
    /\ rlast.op = "complete" /\ rlast.ret = 0
    /\ ring.submissions > ring.size
    /\ ring.count > 0
    /\ \E s \in DOMAIN ring.descriptors :
          /\ ring.descriptors[s].status # 0
          /\ ring.descriptors[s].length = rlast.length
          /\ ring.descriptors[ring.tail].length # rlast.length

\* C22: in every reachable state of a ring submissions - completions is
\* count and overruns is the number of submits rejected as full; a step
\* that records a transfer in the statistics block, or resets the block,
\* leaves the ring, these three counters included, as it was.
C22_RingCounters ==
    /\ [](/\ ring.submissions - ring.completions = ring.count
          /\ ring.overruns = rlast.rejected)
    /\ [][(stats' # stats \/ tlast' # tlast) => ring' = ring]_vars

\* The ring has counted submits, a complete and an overrun, and the last
\* statistics call was a reset that wiped a recorded transfer.
C22_Witness ==
    /\ ring.submissions > ring.size
    /\ ring.completions > 0
    /\ ring.overruns = 1
    /\ tlast.op = "reset"
    /\ tlast.pre.total_transfers > 0
    /\ stats = ZeroStats

(***************************************************************************)
(* SpecRingCallers: several callers inside pcie_sim_ring_submit and        *)
(* pcie_sim_ring_complete at once, one statement of the bodies per step.   *)
(***************************************************************************)
MaxRingCalls == 6     \* ring calls started by all callers together

\* Mutant: the lock is taken whether or not another caller holds it.
spin_lock_irqsave_nowait(t) == t

\* spin_lock_irqsave(&ring->lock, irq_flags) by caller t: the new owner.
\* The caller spins while the lock is taken.
spin_lock_irqsave(t) == IF rq.lock = "free" THEN t ELSE rq.lock

spin_unlock_irqrestore(t) == "free"

RcFrame ==
    UNCHANGED <<now, subLog, compLog, rlast, statVars, concVars, trio, tstep,
                devVars, injVars, lat, call, vld, logf, mem, dly, lateVars>>

InitRingCallers ==
    /\ ring = init_ring(RingCap)
    /\ now = 0
    /\ subLog = <<>>
    /\ compLog = <<>>
    /\ rlast = NoRingCall
    /\ StatIdle
    /\ ConcIdle
    /\ OtherIdle

RcAt(t, pc, op) == rq.c[t].pc = pc /\ rq.c[t].op = op

\* Caller t enters pcie_sim_ring_submit with this length.
RcCallSubmit(t) ==
    /\ rq.c[t].pc = "idle"
    /\ rq.calls < MaxRingCalls
    /\ \E l \in Lengths :
         rq' = [rq EXCEPT !.calls = @ + 1,
                          !.c[t] = [NoRingLocals EXCEPT !.pc = "lock",
                                                        !.op = "submit",
                                                        !.length = l]]
    /\ UNCHANGED ring
    /\ RcFrame

\* Caller t enters pcie_sim_ring_complete with this status.
RcCallComplete(t) ==
    /\ rq.c[t].pc = "idle"
    /\ rq.calls < MaxRingCalls
    /\ \E s \in StatusSet :
         rq' = [rq EXCEPT !.calls = @ + 1,
                          !.c[t] = [NoRingLocals EXCEPT !.pc = "lock",
                                                        !.op = "complete",
                                                        !.status = s]]
    /\ UNCHANGED ring
    /\ RcFrame

\* The first statement of both functions.
RcLock(t) ==
    /\ rq.c[t].pc = "lock"
    /\ spin_lock_irqsave(t) = t
    /\ rq' = [rq EXCEPT !.lock = t, !.c[t].pc = "check"]
    /\ UNCHANGED ring
    /\ RcFrame

\* if (atomic_read(&ring->count) >= ring->size)
RcSubmitCheck(t) ==
    /\ RcAt(t, "check", "submit")
    /\ rq' = [rq EXCEPT !.c[t].pc =
                 IF ring.count >= ring.size THEN "overrun" ELSE "fill"]
    /\ UNCHANGED ring
    /\ RcFrame

\* atomic64_inc(&ring->overruns)
RcSubmitOverrun(t) ==
    /\ RcAt(t, "overrun", "submit")
    /\ ring' = [ring EXCEPT !.overruns = @ + 1]
    /\ rq' = [rq EXCEPT !.c[t].pc = "unlock_fail"]
    /\ RcFrame

\* The five stores into ring->descriptors[ring->head].  The descriptor gets
\* the next ticket of the history.
RcSubmitFill(t) ==
    /\ RcAt(t, "fill", "submit")
    /\ ring' = [ring EXCEPT !.descriptors[ring.head] =
                   [buffer_addr |-> 4096, length |-> rq.c[t].length,
                    flags |-> 1, timestamp |-> now, status |-> 0]]
    /\ rq' = [rq EXCEPT !.tickets = @ + 1,
                        !.slot_ticket[ring.head] = rq.tickets + 1,
                        !.c[t].ticket = rq.tickets + 1,
                        !.c[t].pc = "next_head"]
    /\ RcFrame

\* next_head = (ring->head + 1) % ring->size
RcSubmitNextHead(t) ==
    /\ RcAt(t, "next_head", "submit")
    /\ rq' = [rq EXCEPT !.c[t].next_head = (ring.head + 1) % ring.size,
                        !.c[t].pc = "head"]
    /\ UNCHANGED ring
    /\ RcFrame

\* ring->head = next_head
RcSubmitHead(t) ==
    /\ RcAt(t, "head", "submit")
    /\ ring' = [ring EXCEPT !.head = rq.c[t].next_head]
    /\ rq' = [rq EXCEPT !.c[t].pc = "count"]
    /\ RcFrame

\* atomic_inc(&ring->count)
RcSubmitCount(t) ==
    /\ RcAt(t, "count", "submit")
    /\ ring' = [ring EXCEPT !.count = @ + 1]
    /\ rq' = [rq EXCEPT !.c[t].pc = "total"]
    /\ RcFrame

\* atomic64_inc(&ring->submissions)
RcSubmitTotal(t) ==
    /\ RcAt(t, "total", "submit")
    /\ ring' = [ring EXCEPT !.submissions = @ + 1]
    /\ rq' = [rq EXCEPT !.c[t].pc = "unlock_ok"]
    /\ RcFrame

\* if (atomic_read(&ring->count) == 0)
RcCompleteCheck(t) ==
    /\ RcAt(t, "check", "complete")
    /\ rq' = [rq EXCEPT !.c[t].pc =
                 IF ring.count = 0 THEN "unlock_fail" ELSE "desc"]
    /\ UNCHANGED ring
    /\ RcFrame

\* desc = &ring->descriptors[ring->tail] and the two output stores.
RcCompleteDesc(t) ==
    /\ RcAt(t, "desc", "complete")
    /\ rq' = [rq EXCEPT !.c[t].desc = ring.tail,
                        !.c[t].length = ring.descriptors[ring.tail].length,
                        !.c[t].ticket = rq.slot_ticket[ring.tail],
                        !.c[t].pc = "status"]
    /\ UNCHANGED ring
    /\ RcFrame

\* desc->status = status: the descriptor is completed.
RcCompleteStatus(t) ==
    /\ RcAt(t, "status", "complete")
    /\ ring' = [ring EXCEPT !.descriptors[rq.c[t].desc].status = rq.c[t].status]
    /\ rq' = [rq EXCEPT !.completed = Append(@, rq.c[t].ticket),
                        !.c[t].pc = "tail"]
    /\ RcFrame

\* ring->tail = (ring->tail + 1) % ring->size
RcCompleteTail(t) ==
    /\ RcAt(t, "tail", "complete")
    /\ ring' = [ring EXCEPT !.tail = (ring.tail + 1) % ring.size]
    /\ rq' = [rq EXCEPT !.c[t].pc = "count"]
    /\ RcFrame

\* atomic_dec(&ring->count)
RcCompleteCount(t) ==
    /\ RcAt(t, "count", "complete")
    /\ ring' = [ring EXCEPT !.count = @ - 1]
    /\ rq' = [rq EXCEPT !.c[t].pc = "total"]
    /\ RcFrame

\* atomic64_inc(&ring->completions)
RcCompleteTotal(t) ==
    /\ RcAt(t, "total", "complete")
    /\ ring' = [ring EXCEPT !.completions = @ + 1]
    /\ rq' = [rq EXCEPT !.c[t].pc = "unlock_ok"]
    /\ RcFrame

\* spin_unlock_irqrestore and return 0; the pr_debug in between only reads.
RcReturnOk(t) ==
    /\ rq.c[t].pc = "unlock_ok"
    /\ rq' = [rq EXCEPT
                !.lock = spin_unlock_irqrestore(t),
                !.ok_submit = @ + (IF rq.c[t].op = "submit" THEN 1 ELSE 0),
                !.ok_complete = @ + (IF rq.c[t].op = "complete" THEN 1 ELSE 0),
                !.c[t] = NoRingLocals]
    /\ UNCHANGED ring
    /\ RcFrame

\* spin_unlock_irqrestore and return -ENOSPC or -ENODATA.
RcReturnFail(t) ==
    /\ rq.c[t].pc = "unlock_fail"
    /\ rq' = [rq EXCEPT !.lock = spin_unlock_irqrestore(t),
                        !.c[t] = NoRingLocals]
    /\ UNCHANGED ring
    /\ RcFrame

NextRingCallers ==
    \E t \in RingCallers :
        \/ RcCallSubmit(t)
        \/ RcCallComplete(t)
        \/ RcLock(t)
        \/ RcSubmitCheck(t)
        \/ RcSubmitOverrun(t)
        \/ RcSubmitFill(t)
        \/ RcSubmitNextHead(t)
        \/ RcSubmitHead(t)
        \/ RcSubmitCount(t)
        \/ RcSubmitTotal(t)
        \/ RcCompleteCheck(t)
        \/ RcCompleteDesc(t)
        \/ RcCompleteStatus(t)
        \/ RcCompleteTail(t)
        \/ RcCompleteCount(t)
        \/ RcCompleteTotal(t)
        \/ RcReturnOk(t)
        \/ RcReturnFail(t)

SpecRingCallers == InitRingCallers /\ [][NextRingCallers]_vars

RcAllReturned == \A t \in RingCallers : rq.c[t].pc = "idle"

\* The tickets of the descriptors that were submitted and not completed yet.
RcLiveTickets == {k \in 1 .. rq.tickets : \A i \in DOMAIN rq.completed : rq.completed[i] # k}

\* C21: with any number of callers inside pcie_sim_ring_submit and
\* pcie_sim_ring_complete at once, head, tail and count are changed only by
\* the caller that holds ring->lock; once all calls have returned, count is
\* the number of successful submits minus the number of successful completes;
\* every descriptor submitted and not yet completed still has a slot of its
\* own (no slot is handed to two submitters); no descriptor is completed
\* twice and nothing is completed that was not submitted.
C21_RingUnderLock ==
    /\ [][(ring'.head # ring.head \/ ring'.tail # ring.tail
           \/ ring'.count # ring.count)
          => /\ rq.lock \in RingCallers
             /\ rq'.c[rq.lock] # rq.c[rq.lock]
             /\ \A u \in RingCallers \ {rq.lock} : rq'.c[u] = rq.c[u]]_vars
    /\ [](/\ RcAllReturned => ring.count = rq.ok_submit - rq.ok_complete
          /\ \A k \in RcLiveTickets :
               \E s \in 0 .. ring.size - 1 : rq.slot_ticket[s] = k
          /\ \A i, j \in DOMAIN rq.completed :
               /\ rq.completed[i] \in 1 .. rq.tickets
               /\ rq.completed[i] = rq.completed[j] => i = j)

\* All calls have returned after a ring that was full rejected one submit
\* while another caller was waiting for the lock, and a slot was reused.
C21_Witness ==
    /\ RcAllReturned
    /\ ring.overruns = 1
    /\ rq.ok_submit > ring.size
    /\ rq.ok_complete = 1
    /\ ring.count = ring.size

(***************************************************************************)
(* SpecConfig: a caller fills struct pcie_sim_test_config and has it       *)
(* checked by pcie_sim_config_validate (utils/config.c).                   *)
(***************************************************************************)
MaxConfigCalls == 4   \* stores into the configuration and validate calls

\* Mutant: the device count is not checked.
pcie_sim_config_validate_nodev(config) ==
    IF config.min_size < 64 \/ config.max_size > 4194304 THEN -1
    ELSE IF config.min_size > config.max_size THEN -1
    ELSE IF config.rate_hz < 1 \/ config.rate_hz > 10000 THEN -1
    ELSE IF config.probability < 0 \/ config.probability > 1000 THEN -1
    ELSE IF config.num_threads > 64 THEN -1
    ELSE IF config.duration_seconds > 3600 THEN -1
    ELSE 0

\* pcie_sim_config_validate for a non-NULL config.
pcie_sim_config_validate(config) ==
    IF config.num_devices < 1 \/ config.num_devices > 8 THEN -1
    ELSE IF config.min_size < 64 \/ config.max_size > 4194304 THEN -1
    ELSE IF config.min_size > config.max_size THEN -1
    ELSE IF config.rate_hz < 1 \/ config.rate_hz > 10000 THEN -1
    ELSE IF config.probability < 0 \/ config.probability > 1000 THEN -1
    ELSE IF config.num_threads > 64 THEN -1
    ELSE IF config.duration_seconds > 3600 THEN -1
    ELSE 0

\* Values a caller stores into the fields: both ends of every range and the
\* values next to them (the unsigned fields cannot be negative).
ConfigValues ==
    [num_devices |-> {0, 8, 9},
     min_size |-> {63, 64, 4194304},
     max_size |-> {64, 4194304, 4194305},
     rate_hz |-> {0, 10000, 10001},
     probability |-> {-1, 1000, 1001},
     num_threads |-> {0, 64, 65},
     duration_seconds |-> {0, 3600, 3601}]

ConfigFrame ==
    UNCHANGED <<ringVars, statVars, concVars, trio, tstep, devVars, run, lat,
                call, rq, logf, mem, dly, lateVars>>

InitConfig == RingIdle /\ StatIdle /\ ConcIdle /\ OtherIdle

\* A store into one field of the structure, as ProgramOptions::to_config
\* and every caller of the C interface does.
ConfigStore ==
    /\ vld.n < MaxConfigCalls
    /\ \E f \in DOMAIN ConfigValues : \E v \in ConfigValues[f] :
         /\ cfg[f] # v
         /\ cfg' = [cfg EXCEPT ![f] = v]
    /\ vld' = [vld EXCEPT !.n = @ + 1]
    /\ ConfigFrame

\* pcie_sim_config_init(&config)
ConfigInit ==
    /\ vld.n < MaxConfigCalls
    /\ cfg # pcie_sim_config_init
    /\ cfg' = pcie_sim_config_init
    /\ vld' = [vld EXCEPT !.n = @ + 1]
    /\ ConfigFrame

\* pcie_sim_config_validate(&config)
ConfigValidate ==
    /\ vld.n < MaxConfigCalls
    /\ vld' = [n |-> vld.n + 1, ret |-> pcie_sim_config_validate(cfg),
               config |-> cfg]
    /\ UNCHANGED cfg
    /\ ConfigFrame

NextConfig == ConfigStore \/ ConfigInit \/ ConfigValidate

SpecConfig == InitConfig /\ [][NextConfig]_vars

\* C24: pcie_sim_config_validate accepts a configuration only if the device
\* count is in 1..8, 64 <= min_size <= max_size <= 4194304, the rate is in
\* 1..10000, the error probability is in [0,1], the thread count is in 1..64
\* and the duration is in 1..3600; the configuration pcie_sim_config_init
\* produces is accepted.
C24_AcceptsOnlyInRange ==
    /\ pcie_sim_config_validate(pcie_sim_config_init) = 0
    /\ vld.ret = 0 =>
         /\ vld.config.num_devices \in 1 .. 8
         /\ 64 <= vld.config.min_size
         /\ vld.config.min_size <= vld.config.max_size
         /\ vld.config.max_size <= 4194304
         /\ vld.config.rate_hz \in 1 .. 10000
         /\ vld.config.probability \in 0 .. 1000
         /\ vld.config.num_threads \in 1 .. 64
         /\ vld.config.duration_seconds \in 1 .. 3600

\* What the code enforces: the thread count and the duration have an upper
\* limit only, so 0 threads and 0 seconds are accepted.
C24_AcceptsWhatIsChecked ==
    /\ pcie_sim_config_validate(pcie_sim_config_init) = 0
    /\ vld.n > 0 =>
         ((vld.ret = 0) =
            /\ vld.config.num_devices \in 1 .. 8
            /\ 64 <= vld.config.min_size
            /\ vld.config.min_size <= vld.config.max_size
            /\ vld.config.max_size <= 4194304
            /\ vld.config.rate_hz \in 1 .. 10000
            /\ vld.config.probability \in 0 .. 1000
            /\ vld.config.num_threads \in 0 .. 64
            /\ vld.config.duration_seconds \in 0 .. 3600)

\* A configuration with no thread was validated and accepted.
C24_ZeroThreadsAccepted ==
    /\ vld.n > 0
    /\ vld.ret = 0
    /\ vld.config.num_threads = 0

(***************************************************************************)
(* SpecLog: a logging session of the test program.  main constructs the    *)
(* SessionLogger, runs the pattern tests itself, starts the stress         *)
(* workers, joins them and destroys the logger (csv_logger.cpp, cpp_test). *)
(***************************************************************************)
MaxLogTransfers == 3  \* transfers made by all threads of a session together

LogStatuses == {"SUCCESS", "TIMEOUT", "EXCEPTION"}

Line(kind, n, status, thread) ==
    [kind |-> kind, n |-> n, status |-> status, thread |-> thread]

Comment(kind) == Line(kind, 0, "", "main")

\* Mutant: the guard does not wait for the mutex.
lock_guard_nowait(w) == w

\* std::lock_guard<std::mutex> lock(mutex_) by thread w: the new owner.
lock_guard(w) == IF logf.mutex_ = "free" THEN w ELSE logf.mutex_

LogFrame ==
    UNCHANGED <<ringVars, statVars, concVars, trio, tstep, devVars, injVars,
                lat, call, rq, vld, mem, dly, lateVars>>

InitLog == RingIdle /\ StatIdle /\ ConcIdle /\ OtherIdle

\* SessionLogger::SessionLogger: CSVLogger's constructor opens the file and
\* writes the column header, log_session_start writes three comment lines.
\* If the file cannot be opened the exception is caught and logger_ reset.
LogCtor ==
    /\ logf.phase = "ctor"
    /\ \E opened \in BOOLEAN :
         logf' = [logf EXCEPT
                    !.logger_ = opened,
                    !.is_open = opened,
                    !.header_written_ = opened,
                    !.file_ = IF opened
                              THEN <<Comment("header"), Comment("start"),
                                     Comment("config"), Comment("columns")>>
                              ELSE <<>>,
                    !.phase = "pattern",
                    !.t["main"].pc = "xfer"]
    /\ LogFrame

\* One pass of the transfer loop of pattern_based_transfer_test or
\* stress_test_worker up to the call of g_session_logger->log_transfer:
\* the transfer is over, with or without an injected fault or an exception.
\* SessionLogger::log_transfer does nothing without a logger_.
LogTransfer(w) ==
    /\ logf.t[w].pc = "xfer"
    /\ logf.done < MaxLogTransfers
    /\ \E st \in LogStatuses :
         logf' = [logf EXCEPT
                    !.done = @ + 1,
                    !.t[w] = [pc |-> IF logf.logger_ THEN "lock" ELSE "xfer",
                              id |-> logf.done + 1, status |-> st,
                              count |-> 0]]
    /\ LogFrame

\* CSVLogger::log_transfer(const TransferRecord&): the guard.
LogLock(w) ==
    /\ logf.t[w].pc = "lock"
    /\ lock_guard(w) = w
    /\ logf' = [logf EXCEPT !.mutex_ = w, !.t[w].pc = "row"]
    /\ LogFrame

\* if (!file_.is_open()) return; file_ << ... << std::endl
LogRow(w) ==
    /\ logf.t[w].pc = "row"
    /\ logf' = IF logf.is_open
               THEN [logf EXCEPT
                       !.file_ = Append(@, Line("row", logf.t[w].id,
                                                logf.t[w].status, w)),
                       !.t[w].pc = "count_read"]
               ELSE [logf EXCEPT !.t[w].pc = "unlock"]
    /\ LogFrame

\* record_count_++ is a load ...
LogCountRead(w) ==
    /\ logf.t[w].pc = "count_read"
    /\ logf' = [logf EXCEPT !.t[w].count = logf.record_count_,
                            !.t[w].pc = "count_write"]
    /\ LogFrame

\* ... and a store.
LogCountWrite(w) ==
    /\ logf.t[w].pc = "count_write"
    /\ logf' = [logf EXCEPT !.record_count_ = logf.t[w].count + 1,
                            !.t[w].pc = "unlock"]
    /\ LogFrame

\* The guard goes out of scope; the thread is back in its loop.
LogUnlock(w) ==
    /\ logf.t[w].pc = "unlock"
    /\ logf' = [logf EXCEPT !.mutex_ = "free", !.t[w].pc = "xfer"]
    /\ LogFrame

\* run_pattern_tests returns; run_stress_tests starts the workers if
\* PCIE_SIM_CONFIG_ENABLE_STRESS is set and waits for them.
LogStress ==
    /\ logf.phase = "pattern"
    /\ logf.t["main"].pc = "xfer"
    /\ \E stress \in BOOLEAN :
         logf' = [logf EXCEPT
                    !.phase = "stress",
                    !.t = [w \in LogThreads |->
                             IF w = "main" THEN [@[w] EXCEPT !.pc = "join"]
                             ELSE IF stress THEN [@[w] EXCEPT !.pc = "xfer"]
                             ELSE @[w]]]
    /\ LogFrame

\* The worker's time is up: its loop ends.
LogWorkerEnd(w) ==
    /\ w # "main"
    /\ logf.t[w].pc = "xfer"
    /\ logf' = [logf EXCEPT !.t[w].pc = "finished"]
    /\ LogFrame

\* future.wait() has returned for every worker; main returns.
LogJoin ==
    /\ logf.phase = "stress"
    /\ \A w \in LogThreads \ {"main"} : logf.t[w].pc \in {"off", "finished"}
    /\ logf' = [logf EXCEPT !.phase = "dtor", !.t["main"].pc = "dtor"]
    /\ LogFrame

\* SessionLogger::~SessionLogger: log_session_end writes four comment
\* lines, one of them with record_count_.
LogDtor ==
    /\ logf.phase = "dtor"
    /\ logf' = [logf EXCEPT
                  !.file_ = IF logf.logger_ /\ logf.is_open
                            THEN @ \o <<Comment("end"), Comment("duration"),
                                        Line("total", logf.record_count_, "",
                                             "main"),
                                        Comment("summary")>>
                            ELSE @,
                  !.phase = "exit",
                  !.t["main"].pc = "exit"]
    /\ LogFrame

NextLog ==
    \/ LogCtor
    \/ LogStress
    \/ LogJoin
    \/ LogDtor
    \/ \E w \in LogThreads :
         \/ LogTransfer(w)
         \/ LogLock(w)
         \/ LogRow(w)
         \/ LogCountRead(w)
         \/ LogCountWrite(w)
         \/ LogUnlock(w)
         \/ LogWorkerEnd(w)

SpecLog == InitLog /\ [][NextLog]_vars

LogLines(kinds) == {i \in DOMAIN logf.file_ : logf.file_[i].kind \in kinds}

LogRowOf(id) == {i \in LogLines({"row"}) : logf.file_[i].n = id}

\* C25: in a logging session the start comment lines come before every
\* transfer row and the end comment lines after every row; every completed
\* transfer, successful or failed, gets exactly one row (never more, and
\* exactly one once the session has ended), and the record count is the
\* number of rows whenever no thread is inside log_transfer, also in the
\* "Total Records" line, with several threads logging at once.
C25_SessionBracketsRows ==
    /\ \A i \in LogLines({"start", "config", "columns"}) :
         \A j \in LogLines({"row"}) : i < j
    /\ \A i \in LogLines({"end", "duration", "total", "summary"}) :
         \A j \in LogLines({"row"}) : j < i
    /\ \A id \in 1 .. logf.done : Cardinality(LogRowOf(id)) <= 1
    /\ \A i \in LogLines({"row"}) : logf.file_[i].n \in 1 .. logf.done
    /\ (\A w \in LogThreads : logf.t[w].pc \notin {"row", "count_read", "count_write", "lock"})
         => /\ logf.record_count_ = Cardinality(LogLines({"row"}))
            /\ logf.logger_ =>
                 \A id \in 1 .. logf.done : Cardinality(LogRowOf(id)) = 1
    /\ \A i \in LogLines({"total"}) :
         /\ logf.file_[i].n = Cardinality(LogLines({"row"}))
         /\ logf.file_[i].n = logf.done

\* The session has ended with rows of main and of both workers, one of
\* them for a failed transfer.
C25_Witness ==
    /\ logf.phase = "exit"
    /\ logf.logger_
    /\ logf.record_count_ = 3
    /\ \A w \in LogThreads :
         \E i \in LogLines({"row"}) : logf.file_[i].thread = w
    /\ \E i \in LogLines({"row"}) : logf.file_[i].status = "TIMEOUT"

(***************************************************************************)
(* The derived throughput of a statistics block (lib/device.hpp and the    *)
(* /proc report).  A value is num / den * 10^exp Mbps; computed is FALSE   *)
(* where the code returns or keeps 0.0 without dividing.                   *)
(***************************************************************************)
NotComputed == [computed |-> FALSE, num |-> 0, den |-> 1, exp |-> 0]

\* Mutant: the division is made with no transfer recorded as well.
throughput_mbps_unguarded(st) ==
    [computed |-> TRUE, num |-> st.total_bytes * 8 * 1000,
     den |-> st.avg_latency_ns * st.total_transfers, exp |-> 0]

\* Statistics::throughput_mbps:
\* (total_bytes * 8.0 * 1000.0) / (avg_latency_ns * total_transfers)
throughput_mbps(st) ==
    IF st.total_transfers = 0 THEN NotComputed
    ELSE [computed |-> TRUE, num |-> st.total_bytes * 8 * 1000,
          den |-> st.avg_latency_ns * st.total_transfers, exp |-> 0]

\* proc_stats_show: (double)(total_bytes * 8)
\*   / ((avg_latency_ns / 1000000000.0) * total_transfers) / 1000000.0
\* The divisor avg_latency_ns / 10^9 and the final / 10^6 leave 10^3.
avg_throughput_mbps(st) ==
    IF st.avg_latency_ns > 0 /\ st.total_bytes > 0
    THEN [computed |-> TRUE, num |-> st.total_bytes * 8,
          den |-> st.avg_latency_ns * st.total_transfers, exp |-> 9 - 6]
    ELSE NotComputed

RECURSIVE Pow10(_)
Pow10(e) == IF e = 0 THEN 1 ELSE 10 * Pow10(e - 1)

MbpsIsZero(x) == ~x.computed \/ (x.num = 0 /\ x.den # 0)

MbpsEqual(x, y) ==
    \/ MbpsIsZero(x) /\ MbpsIsZero(y)
    \/ /\ x.computed /\ y.computed
       /\ x.den # 0
       /\ x.den = y.den
       /\ x.num * Pow10(x.exp) = y.num * Pow10(y.exp)

\* (total_bytes * 8) / (avg_latency_seconds * total_transfers) / 1e6 with
\* avg_latency_seconds = avg_latency_ns / 10^9, and 0 with no transfer.
MbpsSpecified(st) ==
    IF st.total_transfers = 0 THEN NotComputed
    ELSE [computed |-> TRUE, num |-> st.total_bytes * 8,
          den |-> st.avg_latency_ns * st.total_transfers, exp |-> 3]

ThroughputAgrees(st) ==
    /\ MbpsEqual(throughput_mbps(st), MbpsSpecified(st))
    /\ MbpsEqual(avg_throughput_mbps(st), MbpsSpecified(st))
    /\ MbpsEqual(throughput_mbps(st), avg_throughput_mbps(st))
    /\ throughput_mbps(st).den # 0
    /\ avg_throughput_mbps(st).den # 0
    /\ st.total_transfers = 0 => MbpsIsZero(throughput_mbps(st))
                                 /\ ~avg_throughput_mbps(st).computed

MaxBufCalls == 2      \* transfers explored on the caller's memory
FILL_PATTERN == 170   \* 0xAA

BufBases == {1, 2}
BufSizes == {0, 1, 2}

BufRange(base, size) == base .. base + size - 1

Untouched(cells) == [cells |-> cells, reads |-> {}, writes |-> {}]

\* Mutant: the copy to the caller is one byte longer than the request.
dma_transfer_memory_long(cells, buffer, base, size, direction, fault, part) ==
    IF validate_transfer_request(buffer, size, direction) # 0
       \/ fault \in {"arg_unreadable", "enomem"}
    THEN Untouched(cells)
    ELSE LET n == IF fault = "efault" THEN part ELSE size
         IN  IF direction = 0
             THEN [cells |-> cells, reads |-> BufRange(base, n), writes |-> {}]
             ELSE [cells |-> [i \in MemCells |->
                                IF i \in BufRange(base, n + 1) THEN FILL_PATTERN
                                ELSE cells[i]],
                   reads |-> {}, writes |-> BufRange(base, n + 1) \cap MemCells]

\* pcie_sim_dma_transfer: copy_from_user(kernel_buf, req->buffer, req->size)
\* for direction 0, memset(kernel_buf, 0xAA) and copy_to_user(req->buffer,
\* kernel_buf, req->size) otherwise.  A copy that faults ("efault") has
\* moved part < size bytes.  Nothing is copied when the request is rejected,
\* cannot be read or kzalloc fails.
dma_transfer_memory(cells, buffer, base, size, direction, fault, part) ==
    IF validate_transfer_request(buffer, size, direction) # 0
       \/ fault \in {"arg_unreadable", "enomem"}
    THEN Untouched(cells)
    ELSE LET n == IF fault = "efault" THEN part ELSE size
         IN  IF direction = 0
             THEN [cells |-> cells, reads |-> BufRange(base, n), writes |-> {}]
             ELSE [cells |-> [i \in MemCells |->
                                IF i \in BufRange(base, n) THEN FILL_PATTERN
                                ELSE cells[i]],
                   reads |-> {}, writes |-> BufRange(base, n)]

\* pcie_sim_transfer_linux: buffer is only compared with NULL.
linux_transfer_memory(cells, buffer, base, size, direction) == Untouched(cells)

\* pcie_sim_transfer_impl: the checksum loop over src[0..size) for
\* PCIE_SIM_TO_DEVICE, memset(buffer, 0xAA, size) for any other direction,
\* once the parameters are accepted and the mutex is held.
windows_transfer_memory(cells, buffer, base, size, direction, waited) ==
    IF buffer = "NULL" \/ size = 0 \/ size > WIN_MAX_SIZE \/ ~waited
    THEN Untouched(cells)
    ELSE IF direction = PCIE_SIM_TO_DEVICE
    THEN [cells |-> cells, reads |-> BufRange(base, size), writes |-> {}]
    ELSE [cells |-> [i \in MemCells |->
                       IF i \in BufRange(base, size) THEN FILL_PATTERN
                       ELSE cells[i]],
          reads |-> {}, writes |-> BufRange(base, size)]

BufFrame ==
    UNCHANGED <<backend, ringVars, concVars, trio, tstep, devVars, injVars,
                lat, call, rq, vld, logf, dly, lateVars>>

InitBuffer == StatInit

\* The call is over: res is the backend's result, m what it did to memory.
\* scenario is the fault the test program injected (0: none), which sleeps
\* simulate_error_delay before the call and adds 50000 ns to the latency
\* it reports.
BufDone(res, m, base, size, direction, scenario) ==
    /\ mem' = [cells |-> m.cells, n |-> mem.n + 1, base |-> base,
               size |-> size, direction |-> direction, ret |-> res.ret,
               reads |-> m.reads, writes |-> m.writes, pre |-> mem.cells,
               scenario |-> scenario,
               latency_ns |-> IF res.ret # 0 \/ scenario = 0 THEN res.latency_ns
                              ELSE res.latency_ns + 50000,
               error_status |-> IF res.ret # 0 THEN "EXCEPTION"
                                ELSE IF scenario = 0 THEN "SUCCESS"
                                ELSE pcie_sim_error_scenario_to_string(scenario)]
    /\ BufFrame

KernelBufTransfer ==
    /\ backend = "kernel"
    /\ mem.n < MaxBufCalls
    /\ \E buffer \in Buffers, base \in BufBases, size \in BufSizes,
          direction \in Directions, fault \in KernelFaults,
          latency \in Latencies, part \in 0 .. 1 :
         /\ part < size \/ part = 0
         /\ TransferEffect(ioctl_transfer(stats, buffer, size, direction, fault,
                                          latency),
                           buffer, size, direction, latency)
         /\ BufDone(ioctl_transfer(stats, buffer, size, direction, fault, latency),
                    dma_transfer_memory(mem.cells, buffer, base, size, direction,
                                        fault, part),
                    base, size, direction, 0)

LinuxBufTransfer ==
    /\ backend = "linux"
    /\ mem.n < MaxBufCalls
    /\ \E buffer \in Buffers, base \in BufBases, size \in BufSizes,
          direction \in Directions, latency \in Latencies :
         /\ TransferEffect(pcie_sim_transfer_linux(stats, "handle", buffer, size,
                                                   direction, latency),
                           buffer, size, direction, latency)
         /\ BufDone(pcie_sim_transfer_linux(stats, "handle", buffer, size,
                                            direction, latency),
                    linux_transfer_memory(mem.cells, buffer, base, size, direction),
                    base, size, direction, 0)

WindowsBufTransfer ==
    /\ backend = "windows"
    /\ mem.n < MaxBufCalls
    /\ \E buffer \in Buffers, base \in BufBases, size \in BufSizes,
          direction \in Directions, latency \in Latencies, waited \in BOOLEAN :
         /\ TransferEffect(pcie_sim_transfer_impl(stats, "handle", buffer, size,
                                                  direction, TRUE, waited, latency),
                           buffer, size, direction, latency)
         /\ BufDone(pcie_sim_transfer_impl(stats, "handle", buffer, size,
                                           direction, TRUE, waited, latency),
                    windows_transfer_memory(mem.cells, buffer, base, size,
                                            direction, waited),
                    base, size, direction, 0)

\* A transfer of the test program with a fault injected: the injector
\* sleeps, then device->write(data) is an ordinary TO_DEVICE transfer.
InjectedBufTransfer ==
    /\ mem.n < MaxBufCalls
    /\ \E base \in BufBases, size \in BufSizes \ {0}, latency \in Latencies,
          scenario \in Scenarios \ {PCIE_SIM_ERROR_SCENARIO_NONE} :
         LET res == IF backend = "kernel"
                    THEN ioctl_transfer(stats, "buf", size, PCIE_SIM_TO_DEVICE,
                                        "none", latency)
                    ELSE DevTransferOn(stats, size, latency)
             m == IF backend = "kernel"
                  THEN dma_transfer_memory(mem.cells, "buf", base, size,
                                           PCIE_SIM_TO_DEVICE, "none", 0)
                  ELSE IF backend = "linux"
                  THEN linux_transfer_memory(mem.cells, "buf", base, size,
                                             PCIE_SIM_TO_DEVICE)
                  ELSE windows_transfer_memory(mem.cells, "buf", base, size,
                                               PCIE_SIM_TO_DEVICE, TRUE)
         IN  /\ TransferEffect(res, "buf", size, PCIE_SIM_TO_DEVICE, latency)
             /\ BufDone(res, m, base, size, PCIE_SIM_TO_DEVICE, scenario)

NextBuffer ==
    \/ KernelBufTransfer
    \/ LinuxBufTransfer
    \/ WindowsBufTransfer
    \/ InjectedBufTransfer

SpecBuffer == InitBuffer /\ [][NextBuffer]_vars

\* No access outside buffer[0..size), and none that changes a byte in a
\* TO_DEVICE transfer or in a transfer with an injected fault.
BufConfined ==
    /\ mem.reads \subseteq BufRange(mem.base, mem.size)
    /\ mem.writes \subseteq BufRange(mem.base, mem.size)
    /\ \A i \in MemCells \ mem.writes : mem.cells[i] = mem.pre[i]
    /\ mem.direction = PCIE_SIM_TO_DEVICE => mem.cells = mem.pre /\ mem.writes = {}
    /\ mem.scenario # 0 => mem.cells = mem.pre /\ mem.writes = {}

\* C27: a transfer, with or without an injected fault, reads and writes
\* only buffer[0..size); a TO_DEVICE transfer leaves the buffer as it was;
\* a FROM_DEVICE transfer that succeeds writes exactly the size bytes of
\* the buffer; an injected fault changes nothing but the reported latency
\* and error kind.
C27_BufferConfined ==
    /\ BufConfined
    /\ (mem.n > 0 /\ mem.direction = PCIE_SIM_FROM_DEVICE /\ mem.ret = 0)
         => mem.writes = BufRange(mem.base, mem.size)

\* What the code does: the driver and the Windows simulation write the size
\* bytes, the Linux simulation returns success and writes nothing.
C27_ConfinedPerBackend ==
    /\ BufConfined
    /\ (mem.n > 0 /\ mem.direction = PCIE_SIM_FROM_DEVICE /\ mem.ret = 0)
         => mem.writes = IF backend = "linux" THEN {}
                         ELSE BufRange(mem.base, mem.size)

\* The Linux simulation has returned success for a FROM_DEVICE transfer of
\* two bytes and the buffer is as it was.
C27_LinuxReadWritesNothing ==
    /\ backend = "linux"
    /\ mem.n > 0
    /\ mem.direction = PCIE_SIM_FROM_DEVICE
    /\ mem.ret = 0
    /\ mem.size = 2
    /\ mem.cells = mem.pre

(***************************************************************************)
(* SpecPure: transfers whose delay is computed while the statistics and    *)
(* the descriptor ring of the device change around them.                   *)
(***************************************************************************)
MaxPureCalls == 2     \* transfers whose delay is computed
MaxPureQueued == 1    \* descriptors queued meanwhile

PureSizes == {64, 4096}
PureDirections == {PCIE_SIM_TO_DEVICE, PCIE_SIM_FROM_DEVICE}
PureJitters == {0, 7}
ClockOverheads == {500}

\* The delay in ns that the build computes for a transfer; draw1 and draw2
\* are what the random source returns (the Linux simulation draws nothing,
\* the driver draws once).
transfer_delay_ns(size, direction, draw1, draw2) ==
    IF backend = "kernel"
    THEN 1000 * kernel_simulate_transfer_delay(size, draw1)
    ELSE IF backend = "linux"
    THEN linux_transfer_latency(size, direction)
    ELSE 1000 * windows_simulate_transfer_delay(size, draw1, draw2)

PureFrame ==
    UNCHANGED <<backend, ringVars, concVars, trio, tstep, devVars, injVars,
                lat, call, rq, vld, logf, mem, lateVars>>

InitPure == StatInit

\* A valid transfer reaches its delay: the delay is computed.  The entry of
\* the table also says what the statistics and the ring held then.
PureDelay ==
    /\ ~dly.active
    /\ dly.n < MaxPureCalls
    /\ \E size \in PureSizes, direction \in PureDirections,
          draw1 \in PureJitters, draw2 \in PureJitters :
         LET d == transfer_delay_ns(size, direction, draw1, draw2)
         IN  dly' = [n |-> dly.n + 1, active |-> TRUE, size |-> size,
                     direction |-> direction, delay_ns |-> d,
                     table |-> dly.table \cup
                        {[size |-> size, direction |-> direction,
                          draw1 |-> IF backend = "linux" THEN 0 ELSE draw1,
                          draw2 |-> IF backend = "windows" THEN draw2 ELSE 0,
                          delay_ns |-> d,
                          transfers |-> stats.total_transfers,
                          avg |-> stats.avg_latency_ns,
                          queued |-> ring.count]}]
    /\ UNCHANGED <<stats, seen, tlast>>
    /\ PureFrame

\* The delay is over: the clock gives the latency and the transfer is
\* recorded in the statistics of the device.
PureRecord ==
    /\ dly.active
    /\ \E over \in ClockOverheads :
         LET latency == dly.delay_ns + over
             res == IF backend = "kernel"
                    THEN ioctl_transfer(stats, "buf", dly.size, dly.direction,
                                        "none", latency)
                    ELSE IF backend = "linux"
                    THEN pcie_sim_transfer_linux(stats, "handle", "buf", dly.size,
                                                 dly.direction, latency)
                    ELSE pcie_sim_transfer_impl(stats, "handle", "buf", dly.size,
                                                dly.direction, TRUE, TRUE, latency)
         IN  TransferEffect(res, "buf", dly.size, dly.direction, latency)
    /\ dly' = [dly EXCEPT !.active = FALSE]
    /\ PureFrame

\* Descriptors are queued on and taken off the ring of the kernel device.
PureSubmit ==
    /\ backend = "kernel"
    /\ ~dly.active
    /\ ring.submissions < MaxPureQueued
    /\ RingSubmit(4096, 4096, 1)

PureComplete ==
    /\ backend = "kernel"
    /\ ~dly.active
    /\ ring.count > 0
    /\ RingComplete(1)

\* The statistics are reset between transfers.
PureReset == ~dly.active /\ stats.total_transfers > 0 /\ StatResets

NextPure ==
    PureDelay \/ PureRecord \/ PureSubmit \/ PureComplete \/ PureReset

SpecPure == InitPure /\ [][NextPure]_vars

SameDelayInputs(a, b) ==
    /\ a.size = b.size
    /\ a.direction = b.direction
    /\ a.draw1 = b.draw1
    /\ a.draw2 = b.draw2

C31_RejectedChangesNothing ==
    [][/\ (/\ rlast'.op = "submit"
           /\ rlast'.ret = -ENOSPC
           /\ <<ring, rlast>>' # <<ring, rlast>>)
          => ring' = [ring EXCEPT !.overruns = @ + 1]
       /\ (/\ rlast'.op = "complete"
           /\ rlast'.ret = -ENODATA
           /\ <<ring, rlast>>' # <<ring, rlast>>)
          => /\ ring' = ring
             /\ rlast'.out_length = rlast.out_length
             /\ rlast'.out_latency_ns = rlast.out_latency_ns]_vars

\* A complete was rejected on a ring that had overrun before, while the
\* caller's output variables still hold what an earlier completion stored.
C31_Witness ==
    /\ rlast.op = "complete"
    /\ rlast.ret = -ENODATA
    /\ rlast.out_length > 0
    /\ rlast.out_latency_ns > 0
    /\ ring.overruns > 0
    /\ ring.completions > 0

(***************************************************************************)
(* C32: the latency statistics stay ordered                                *)
(***************************************************************************)
\* C32: in every backend, once a successful transfer has been recorded
\* since the last reset, min_latency_ns <= avg_latency_ns <= max_latency_ns.
C32_LatencyOrdered ==
    stats.total_transfers > 0
       => /\ stats.min_latency_ns <= stats.avg_latency_ns
          /\ stats.avg_latency_ns <= stats.max_latency_ns

(***************************************************************************)
(* C33: the Linux simulation waits without the device mutex                *)
(***************************************************************************)
WaitSizes == {0, 64}

WaitDirections == {PCIE_SIM_TO_DEVICE, PCIE_SIM_FROM_DEVICE}

\* Mutant: the device mutex is taken before the simulated wait.
LinuxEnter_locked(t) ==
    /\ backend = "linux"
    /\ thr[t].pc = "idle"
    /\ thr[t].left > 0
    /\ pthread_mutex_lock(t)
    /\ \E size \in WaitSizes \ {0}, direction \in WaitDirections :
          thr' = [thr EXCEPT ![t].pc = "delay", ![t].size = size,
                             ![t].latency =
                                 linux_transfer_latency(size, direction)]
    /\ UNCHANGED <<stats, mon, acct>>
    /\ ConcFrame

\* pcie_sim_transfer_linux from its entry to the call of linux_sim_delay:
\* a size of zero returns PCIE_SIM_ERROR_PARAM at once, any other request
\* computes transfer_latency and starts to wait.
LinuxEnter(t) ==
    /\ backend = "linux"
    /\ thr[t].pc = "idle"
    /\ thr[t].left > 0
    /\ \E size \in WaitSizes, direction \in WaitDirections :
          thr' = IF pcie_sim_transfer_linux(stats, "handle", "buf", size,
                                            direction, 0).ret
                    = PCIE_SIM_ERROR_PARAM
                 THEN [thr EXCEPT ![t].left = @ - 1]
                 ELSE [thr EXCEPT ![t].pc = "delay", ![t].size = size,
                                  ![t].latency =
                                      linux_transfer_latency(size, direction)]
    /\ UNCHANGED <<mutex, stats, mon, acct>>
    /\ ConcFrame

\* linux_sim_delay returns: nanosleep is over and end_time is taken, so
\* current_latency is the time waited.
LinuxWaitOver(t) ==
    /\ backend = "linux"
    /\ thr[t].pc = "delay"
    /\ Goto(t, "lock")
    /\ UNCHANGED <<mutex, stats, mon, acct>>
    /\ ConcFrame

InitWait == InitConc /\ backend = "linux"

NextWait ==
    \/ \E t \in Workers :
          \/ LinuxEnter(t) \/ LinuxWaitOver(t) \/ LinuxLock(t)
          \/ LinuxIncLoad(t) \/ LinuxIncStore(t) \/ LinuxAddLoad(t)
          \/ LinuxAddStore(t) \/ LinuxLatency(t) \/ LinuxUnlock(t)
    \/ GetStatsLock \/ GetStatsCopy \/ GetStatsUnlock
    \/ ResetLock \/ ResetMemset \/ ResetUnlock
    \/ MonReturn

SpecWait == InitWait /\ [][NextWait]_vars

\* The positions of pcie_sim_transfer_linux between pthread_mutex_lock and
\* pthread_mutex_unlock.
UpdatingStats ==
    {"inc_load", "inc_store", "add_load", "add_store", "latency", "unlock"}

\* C33: a caller of the Linux simulation that is in its simulated latency
\* wait does not hold the device mutex; a caller that holds the mutex is
\* within the statistics update, so a get_stats or a reset can take the
\* mutex while transfers wait.
C33_NoWaitUnderMutex ==
    /\ \A t \in Workers : thr[t].pc = "delay" => mutex # t
    /\ mutex \in Workers => thr[mutex].pc \in UpdatingStats

\* Both callers are in their waits at the same time while get_stats holds
\* the mutex and copies the block, which already counts a transfer.
C33_Witness ==
    /\ \A t \in Workers : thr[t].pc = "delay"
    /\ mutex = Monitor
    /\ mon.pc = "g_copy"
    /\ stats.total_transfers > 0

\* Both callers are in their waits while reset_stats holds the mutex.
C33_WitnessReset ==
    /\ \A t \in Workers : thr[t].pc = "delay"
    /\ mutex = Monitor
    /\ mon.pc = "r_memset"

(***************************************************************************)
(* C34: one handle per device in the Windows simulation                    *)
(***************************************************************************)
MaxOpenCalls == 4

\* EnterCriticalSection(&g_global_lock) by caller c.
EnterCriticalSection(c) == g_global_lock = LockFree /\ g_global_lock' = c

LeaveCriticalSection(c) == g_global_lock' = LockFree

OpenFrame ==
    UNCHANGED <<ringVars, statVars, concVars, trio, tstep, own, injVars, lat,
                call, rq, vld, logf, mem, dly, ioc, mmio, objs, names, pm>>

InitOpen == InitDevices /\ backend = "windows"

\* pcie_sim_open_impl, entry: the parameters are checked and
\* windows_sim_init reads g_initialized.
WinOpenCall(c) ==
    /\ ~hnd[c].open
    /\ hnd[c].pc = "idle"
    /\ dlast.n < MaxOpenCalls
    /\ \E device_id \in OpenIds :
          IF device_id < 0 \/ device_id >= MAX_DEVICES
          THEN /\ DevDone(c, "open", 0, PCIE_SIM_ERROR_PARAM, ZeroStats, FALSE)
               /\ UNCHANGED hnd
          ELSE /\ hnd' = [hnd EXCEPT ![c].device_id = device_id,
                                     ![c].pc = IF g_initialized THEN "enter"
                                               ELSE "init"]
               /\ dlast' = [dlast EXCEPT !.n = @ + 1]
    /\ UNCHANGED <<g_initialized, g_devices, g_global_lock>>
    /\ OpenFrame

\* windows_sim_init after it read g_initialized as FALSE:
\* InitializeCriticalSection and the loop over the devices.  Initialising
\* a critical section that a thread owns is undefined: the section keeps
\* its owner or loses it.  CreateMutex may fail on the first device, whose
\* active flag is already cleared by then.
WinInitLoop(c) ==
    /\ hnd[c].pc = "init"
    /\ g_global_lock' \in {g_global_lock, LockFree}
    /\ \E mutex_ok \in BOOLEAN :
          IF mutex_ok
          THEN /\ g_devices' = windows_sim_init(FALSE, g_devices, TRUE).devices
               /\ hnd' = [hnd EXCEPT ![c].pc = "init_done"]
               /\ UNCHANGED dlast
          ELSE /\ g_devices' = [g_devices EXCEPT ![0].active = FALSE]
               /\ hnd' = [hnd EXCEPT ![c] = NoHandle]
               /\ DevDone(c, "open", hnd[c].device_id, PCIE_SIM_ERROR_SYSTEM,
                          ZeroStats, FALSE)
    /\ UNCHANGED g_initialized
    /\ OpenFrame

\* windows_sim_init: g_initialized = TRUE; return 0.
WinInitDone(c) ==
    /\ hnd[c].pc = "init_done"
    /\ g_initialized' = TRUE
    /\ hnd' = [hnd EXCEPT ![c].pc = "enter"]
    /\ UNCHANGED <<g_devices, g_global_lock, dlast>>
    /\ OpenFrame

WinOpenEnter(c) ==
    /\ hnd[c].pc = "enter"
    /\ EnterCriticalSection(c)
    /\ hnd' = [hnd EXCEPT ![c].pc = "check"]
    /\ UNCHANGED <<g_initialized, g_devices, dlast>>
    /\ OpenFrame

\* if (g_devices[device_id].active) ... else active = TRUE, inside the
\* critical section.
WinOpenCheck(c) ==
    /\ hnd[c].pc = "check"
    /\ IF g_devices[hnd[c].device_id].active
       THEN /\ hnd' = [hnd EXCEPT ![c].pc = "leave_busy"]
            /\ UNCHANGED g_devices
       ELSE /\ g_devices' = [g_devices EXCEPT ![hnd[c].device_id].active = TRUE]
            /\ hnd' = [hnd EXCEPT ![c].pc = "leave_ok"]
    /\ UNCHANGED <<g_initialized, g_global_lock, dlast>>
    /\ OpenFrame

\* LeaveCriticalSection; the busy path returns PCIE_SIM_ERROR_DEVICE.
WinOpenLeave(c) ==
    /\ hnd[c].pc \in {"leave_busy", "leave_ok"}
    /\ LeaveCriticalSection(c)
    /\ IF hnd[c].pc = "leave_busy"
       THEN /\ hnd' = [hnd EXCEPT ![c] = NoHandle]
            /\ DevDone(c, "open", hnd[c].device_id, PCIE_SIM_ERROR_DEVICE,
                       ZeroStats, FALSE)
       ELSE /\ hnd' = [hnd EXCEPT ![c].pc = "malloc"]
            /\ UNCHANGED dlast
    /\ UNCHANGED <<g_initialized, g_devices>>
    /\ OpenFrame

\* malloc of the handle, outside the critical section: a failure clears
\* the active flag again, a success hands the handle to the caller.
WinOpenMalloc(c) ==
    /\ hnd[c].pc = "malloc"
    /\ \E malloc_ok \in BOOLEAN :
          IF malloc_ok
          THEN /\ hnd' = [hnd EXCEPT ![c].open = TRUE, ![c].pc = "idle"]
               /\ DevDone(c, "open", hnd[c].device_id, PCIE_SIM_SUCCESS,
                          ZeroStats, FALSE)
               /\ UNCHANGED g_devices
          ELSE /\ g_devices' = [g_devices EXCEPT
                                   ![hnd[c].device_id].active = FALSE]
               /\ hnd' = [hnd EXCEPT ![c] = NoHandle]
               /\ DevDone(c, "open", hnd[c].device_id, PCIE_SIM_ERROR_MEMORY,
                          ZeroStats, FALSE)
    /\ UNCHANGED <<g_initialized, g_global_lock>>
    /\ OpenFrame

\* pcie_sim_close_impl on the caller's handle, up to EnterCriticalSection.
WinCloseEnter(c) ==
    /\ hnd[c].open
    /\ hnd[c].pc = "idle"
    /\ dlast.n < MaxOpenCalls
    /\ EnterCriticalSection(c)
    /\ hnd' = [hnd EXCEPT ![c].pc = "c_mark"]
    /\ dlast' = [dlast EXCEPT !.n = @ + 1]
    /\ UNCHANGED <<g_initialized, g_devices>>
    /\ OpenFrame

WinCloseMark(c) ==
    /\ hnd[c].pc = "c_mark"
    /\ g_devices' = pcie_sim_close_impl(g_devices, DeviceOf(hnd[c])).devices
    /\ hnd' = [hnd EXCEPT ![c].pc = "c_leave"]
    /\ UNCHANGED <<g_initialized, g_global_lock, dlast>>
    /\ OpenFrame

\* LeaveCriticalSection, free(h), return PCIE_SIM_SUCCESS.
WinCloseLeave(c) ==
    /\ hnd[c].pc = "c_leave"
    /\ LeaveCriticalSection(c)
    /\ hnd' = [hnd EXCEPT ![c] = NoHandle]
    /\ DevDone(c, "close", hnd[c].device_id, PCIE_SIM_SUCCESS, ZeroStats, FALSE)
    /\ UNCHANGED <<g_initialized, g_devices>>
    /\ OpenFrame

NextOpen ==
    \E c \in Callers :
       \/ WinOpenCall(c) \/ WinInitLoop(c) \/ WinInitDone(c)
       \/ WinOpenEnter(c) \/ WinOpenCheck(c) \/ WinOpenLeave(c)
       \/ WinOpenMalloc(c)
       \/ WinCloseEnter(c) \/ WinCloseMark(c) \/ WinCloseLeave(c)

SpecOpen == InitOpen /\ [][NextOpen]_vars

\* The callers that hold a handle on device d.
HandlesOn(d) == {c \in Callers : hnd[c].open /\ hnd[c].device_id = d}

\* C34: at most one handle is open per device at any time, also when opens
\* race, the first opens that initialise the subsystem included.
C34_OneHandlePerDevice ==
    \A d \in DevIds : Cardinality(HandlesOn(d)) <= 1

(***************************************************************************)
(* C35: handles of one device share its statistics (Linux simulation)      *)
(***************************************************************************)
\* C35: in the Linux simulation an open on a device that is already active
\* leaves the statistics of that device (and of every other) as they were,
\* and a snapshot through any handle of a device is the one block of that
\* device, which counts the transfers made through all of its handles.
C35_OpenKeepsSharedStats ==
    backend = "linux" =>
       /\ (/\ dlast.op = "open"
           /\ dlast.ret = PCIE_SIM_SUCCESS
           /\ dlast.pre[dlast.device_id].active)
          => \A d \in DevIds : g_devices[d].stats = dlast.pre[d].stats
       /\ (dlast.op = "get_stats" /\ dlast.ret = PCIE_SIM_SUCCESS)
          => /\ dlast.snap = g_devices[dlast.device_id].stats
             /\ dlast.snap.total_transfers = own[dlast.device_id].ok
             /\ dlast.snap.total_bytes = own[dlast.device_id].bytes

\* A second handle was just opened on a device that another caller holds
\* open and that carries a recorded transfer.
C35_Witness ==
    /\ backend = "linux"
    /\ dlast.op = "open" /\ dlast.ret = PCIE_SIM_SUCCESS
    /\ dlast.pre[dlast.device_id].active
    /\ \A c \in Callers : hnd[c].open /\ hnd[c].device_id = dlast.device_id
    /\ g_devices[dlast.device_id].stats.total_transfers > 0

\* A caller reads, through the second handle of a device, the transfers
\* that were recorded before that handle was opened.
C35_WitnessShared ==
    /\ backend = "linux"
    /\ dlast.op = "get_stats" /\ dlast.ret = PCIE_SIM_SUCCESS
    /\ own[dlast.device_id].users = 2
    /\ dlast.snap.total_transfers > 0
    /\ dlast.n = 4

(***************************************************************************)
(* C36: every path of pcie_sim_char_ioctl releases the device mutex        *)
(***************************************************************************)
PCIE_SIM_IOC_MAGIC == 80
ENOTTY == 25
MaxIoctlCalls == 3

\* _IOC_TYPE and _IOC_NR of the command word.
PCIE_SIM_IOC_TRANSFER == [type |-> PCIE_SIM_IOC_MAGIC, nr |-> 1]
PCIE_SIM_IOC_GET_STATS == [type |-> PCIE_SIM_IOC_MAGIC, nr |-> 2]
PCIE_SIM_IOC_RESET_STATS == [type |-> PCIE_SIM_IOC_MAGIC, nr |-> 3]
PCIE_SIM_IOC_SET_ERROR == [type |-> PCIE_SIM_IOC_MAGIC, nr |-> 4]

IoctlCmds ==
    {PCIE_SIM_IOC_TRANSFER, PCIE_SIM_IOC_GET_STATS, PCIE_SIM_IOC_RESET_STATS,
     PCIE_SIM_IOC_SET_ERROR, [type |-> PCIE_SIM_IOC_MAGIC + 1, nr |-> 1]}

\* What the user pointer of the call allows: everything, no read, no write.
IoctlFaults == {"none", "arg_unreadable", "arg_readonly"}

IoctlSizes == {0, 64}

IoctlFrame ==
    UNCHANGED <<ringVars, backend, seen, tlast, thr, mon, acct, trio, tstep,
                devVars, injVars, lat, call, rq, vld, logf, mem, dly,
                g_global_lock, mmio, objs, names, pm>>

InitIoctl == RingIdle /\ StatIdle /\ ConcIdle /\ OtherIdle

\* The body of the switch of pcie_sim_char_ioctl: the statistics block it
\* leaves and the value of ret.
ioctl_switch(st, cmd, size, fault, latency) ==
    IF cmd = PCIE_SIM_IOC_TRANSFER
    THEN LET r == ioctl_transfer(st, "buf", size, PCIE_SIM_TO_DEVICE, fault,
                                 latency)
         IN  [stats |-> r.stats, ret |-> r.ret]
    ELSE IF cmd = PCIE_SIM_IOC_GET_STATS
    THEN [stats |-> st,
          ret |-> IF fault = "arg_readonly" THEN -EFAULT
                  ELSE ioctl_get_stats(st).ret]
    ELSE IF cmd = PCIE_SIM_IOC_RESET_STATS
    THEN [stats |-> ioctl_reset_stats(st), ret |-> 0]
    ELSE [stats |-> st, ret |-> -ENOTTY]

\* The call returns ret to its caller.
IoctlReturn(t, ret) ==
    [ioc EXCEPT !.c[t].pc = "idle", !.c[t].ret = ret, !.returned = @ + 1]

\* pcie_sim_char_ioctl up to the magic check: a command of another magic
\* number returns -EINVAL.
IoctlCall(t) ==
    /\ ioc.c[t].pc = "idle"
    /\ ioc.calls < MaxIoctlCalls
    /\ \E cmd \in IoctlCmds, fault \in IoctlFaults, size \in IoctlSizes :
          LET started == [ioc EXCEPT !.calls = @ + 1,
                                     !.c[t].cmd = cmd,
                                     !.c[t].fault = fault,
                                     !.c[t].size = size,
                                     !.c[t].acquired = 0,
                                     !.c[t].released = 0,
                                     !.c[t].changed = FALSE]
          IN ioc' = IF cmd.type # PCIE_SIM_IOC_MAGIC
                    THEN [started EXCEPT !.c[t].pc = "idle",
                                         !.c[t].ret = -EINVAL,
                                         !.returned = @ + 1]
                    ELSE [started EXCEPT !.c[t].pc = "lock"]
    /\ UNCHANGED <<mutex, stats>>
    /\ IoctlFrame

\* mutex_lock_interruptible(&dev->mutex) returns 0 with the mutex held.
IoctlLock(t) ==
    /\ ioc.c[t].pc = "lock"
    /\ mutex_lock_interruptible(t)
    /\ ioc' = [ioc EXCEPT !.c[t].pc = "switch", !.c[t].acquired = @ + 1]
    /\ UNCHANGED stats
    /\ IoctlFrame

\* A signal arrives while the caller waits for the mutex: the call returns
\* -ERESTARTSYS and never held the mutex.
IoctlInterrupted(t) ==
    /\ ioc.c[t].pc = "lock"
    /\ mutex # MutexFree
    /\ ioc' = IoctlReturn(t, -ERESTARTSYS)
    /\ UNCHANGED <<mutex, stats>>
    /\ IoctlFrame

\* The switch, with the mutex held; every branch ends in break.
IoctlSwitch(t) ==
    /\ ioc.c[t].pc = "switch"
    /\ \E latency \in ConcLatencies :
          LET r == ioctl_switch(stats, ioc.c[t].cmd, ioc.c[t].size,
                                ioc.c[t].fault, latency)
          IN /\ stats' = r.stats
             /\ ioc' = [ioc EXCEPT !.c[t].pc = "unlock", !.c[t].ret = r.ret,
                                   !.c[t].changed = (r.stats # stats)]
    /\ UNCHANGED mutex
    /\ IoctlFrame

\* Mutant: a failed command returns at once, without the unlock.
IoctlUnlock_on_success(t) ==
    /\ ioc.c[t].pc = "unlock"
    /\ IF ioc.c[t].ret = 0
       THEN /\ mutex_unlock(t)
            /\ ioc' = [IoctlReturn(t, ioc.c[t].ret)
                         EXCEPT !.c[t].released = @ + 1]
       ELSE /\ UNCHANGED mutex
            /\ ioc' = IoctlReturn(t, ioc.c[t].ret)
    /\ UNCHANGED stats
    /\ IoctlFrame

\* mutex_unlock(&dev->mutex); return ret.
IoctlUnlock(t) ==
    /\ ioc.c[t].pc = "unlock"
    /\ mutex_unlock(t)
    /\ ioc' = [IoctlReturn(t, ioc.c[t].ret) EXCEPT !.c[t].released = @ + 1]
    /\ UNCHANGED stats
    /\ IoctlFrame

NextIoctl ==
    \E t \in Workers :
       \/ IoctlCall(t) \/ IoctlLock(t) \/ IoctlInterrupted(t)
       \/ IoctlSwitch(t) \/ IoctlUnlock(t)

SpecIoctl == InitIoctl /\ [][NextIoctl]_vars

\* C36: a call that took the device mutex has released it exactly once
\* when it returns, whatever its result, and holds it until then; with no
\* call in progress the mutex is free.  A command of a wrong magic number
\* returns -EINVAL and never took the mutex; an unknown command returns
\* -ENOTTY and leaves the statistics as they were.
C36_MutexReleasedOnEveryPath ==
    /\ \A t \in Workers :
          LET c == ioc.c[t] IN
          /\ c.pc = "idle" => (c.released = c.acquired /\ mutex # t)
          /\ c.pc \in {"switch", "unlock"} =>
                (c.acquired = 1 /\ c.released = 0 /\ mutex = t)
          /\ c.pc = "lock" => (c.acquired = 0 /\ c.released = 0)
          /\ c.acquired <= 1
          /\ (c.pc = "idle" /\ c.cmd # NoCmd /\ c.cmd.type # PCIE_SIM_IOC_MAGIC)
                => (c.ret = -EINVAL /\ c.acquired = 0)
          /\ (c.pc \in {"unlock", "idle"} /\ c.acquired = 1
              /\ c.cmd.nr \notin {1, 2, 3})
                => (c.ret = -ENOTTY /\ ~c.changed)
    /\ (\A t \in Workers : ioc.c[t].pc = "idle") => mutex = MutexFree

\* A transfer whose result could not be copied back returned -EFAULT, and
\* after it the other caller took the mutex and ran its own command.
C36_Witness ==
    /\ ioc.c["w1"].pc = "idle"
    /\ ioc.c["w1"].cmd = PCIE_SIM_IOC_TRANSFER
    /\ ioc.c["w1"].ret = -EFAULT
    /\ ioc.c["w1"].acquired = 1 /\ ioc.c["w1"].released = 1
    /\ ioc.c["w2"].pc = "unlock"
    /\ ioc.c["w2"].cmd = PCIE_SIM_IOC_SET_ERROR
    /\ ioc.c["w2"].ret = -ENOTTY
    /\ stats.total_transfers = 1
    /\ ioc.returned = 2

(***************************************************************************)
(* C37: the interrupt flag follows the interrupt status register           *)
(***************************************************************************)
\* A 32-bit register value is the set of the numbers of its bits that are 1.
BAR0_SIZE == 4096
REG_DEVICE_ID == 0
REG_STATUS == 4
REG_CONTROL == 8
REG_DMA_CONTROL == 28
REG_INTERRUPT_STATUS == 32
REG_INTERRUPT_ENABLE == 36
REG_ERROR_INJECT == 68

BIT(n) == {n}

STATUS_DEVICE_READY == BIT(0)
STATUS_DMA_BUSY == BIT(1)
STATUS_ERROR == BIT(2)
CONTROL_DEVICE_ENABLE == BIT(0)
CONTROL_DMA_RESET == BIT(2)
IRQ_DMA_COMPLETE == BIT(0)
IRQ_DMA_ERROR == BIT(1)

\* 0x1234ABCD
FAKE_DEVICE_ID == {0, 2, 3, 6, 7, 8, 9, 11, 13, 15, 18, 20, 21, 25, 28}

MmioRegs ==
    {REG_DEVICE_ID, REG_STATUS, REG_CONTROL, REG_DMA_CONTROL,
     REG_INTERRUPT_STATUS, REG_INTERRUPT_ENABLE, REG_ERROR_INJECT}

\* The offsets and values the register writes of the model use; BAR0_SIZE
\* is the first offset outside the region.
WriteOffsets ==
    {REG_STATUS, REG_CONTROL, REG_INTERRUPT_STATUS, REG_ERROR_INJECT, BAR0_SIZE}

WriteValues == {{}, {0}, {1}, {0, 1}, {2}, {0, 1, 2}}

RECURSIVE BitsValue(_)
\* The number a set of bits stands for.
BitsValue(bits) ==
    IF bits = {} THEN 0
    ELSE LET b == CHOOSE x \in bits : TRUE
         IN  2 ^ b + BitsValue(bits \ {b})

\* pcie_sim_mmio_init: kzalloc of BAR0 and the default register values.
pcie_sim_mmio_init(dev) ==
    [dev EXCEPT
        !.bar0_virt = TRUE,
        !.bar0_size = BAR0_SIZE,
        !.regs = [r \in MmioRegs |->
                     IF r = REG_DEVICE_ID THEN FAKE_DEVICE_ID
                     ELSE IF r = REG_STATUS THEN STATUS_DEVICE_READY
                     ELSE IF r = REG_CONTROL THEN CONTROL_DEVICE_ENABLE
                     ELSE IF r = REG_INTERRUPT_ENABLE
                     THEN IRQ_DMA_COMPLETE \cup IRQ_DMA_ERROR
                     ELSE {}],
        !.perf_latency = 0,
        !.perf_count = 0]

\* Mutant: a write to the interrupt status register clears the pending
\* flag whatever remains set.
pcie_sim_mmio_write32_always_clears(dev, offset, value) ==
    IF ~dev.bar0_virt \/ offset >= dev.bar0_size THEN dev
    ELSE IF offset = REG_INTERRUPT_STATUS
    THEN [dev EXCEPT !.regs[offset] = @ \ value, !.pending_interrupts = 0]
    ELSE [dev EXCEPT !.regs[offset] = value]

\* pcie_sim_mmio_write32.
pcie_sim_mmio_write32(dev, offset, value) ==
    IF ~dev.bar0_virt \/ offset >= dev.bar0_size THEN dev
    ELSE IF offset = REG_CONTROL
    THEN IF value \cap CONTROL_DMA_RESET # {}
         THEN [dev EXCEPT !.dma_active = 0,
                          !.regs[offset] = value \ CONTROL_DMA_RESET]
         ELSE [dev EXCEPT !.regs[offset] = value]
    ELSE IF offset = REG_INTERRUPT_STATUS
    THEN LET current == dev.regs[offset]
             new_status == current \ value
         IN  [dev EXCEPT !.regs[offset] = new_status,
                         !.pending_interrupts =
                             IF new_status = {} THEN 0 ELSE @]
    ELSE IF offset = REG_ERROR_INJECT
    THEN IF value \cap (0..7) # {}
         THEN [dev EXCEPT !.fault_injection_rate = BitsValue(value \cap (0..7)),
                          !.simulate_errors = TRUE,
                          !.regs[offset] = value]
         ELSE [dev EXCEPT !.simulate_errors = FALSE, !.regs[offset] = value]
    ELSE [dev EXCEPT !.regs[offset] = value]

\* pcie_sim_mmio_update_dma; req is "NULL" or a request whose latency_ns
\* is latency, total is dev->stats.total_transfers.
pcie_sim_mmio_update_dma(dev, req, latency, total, success) ==
    IF ~dev.bar0_virt THEN dev
    ELSE LET status == (dev.regs[REG_STATUS] \ STATUS_DMA_BUSY)
                       \cup (IF success THEN {} ELSE STATUS_ERROR)
             irq_status == dev.regs[REG_INTERRUPT_STATUS]
                           \cup (IF success THEN IRQ_DMA_COMPLETE
                                 ELSE IRQ_DMA_ERROR)
         IN  [dev EXCEPT
                 !.regs[REG_STATUS] = status,
                 !.regs[REG_INTERRUPT_STATUS] = irq_status,
                 !.perf_latency = IF success /\ req # "NULL"
                                  THEN latency \div 1000 ELSE @,
                 !.perf_count = IF success /\ req # "NULL" THEN total ELSE @,
                 !.pending_interrupts = 1]

MmioFrame ==
    UNCHANGED <<ringVars, statVars, concVars, trio, tstep, devVars, injVars,
                lat, call, rq, vld, logf, mem, dly, g_global_lock, ioc, objs,
                names, pm>>

\* The device after pcie_sim_mmio_init on the freshly allocated structure.
InitMmio ==
    /\ RingIdle /\ StatIdle /\ ConcIdle
    /\ trio = FreshTrio /\ tstep = NoStep /\ DevIdle /\ InjIdle
    /\ lat = NoDelay /\ CallIdle
    /\ rq = NoRingCallers /\ vld = NoValidate /\ logf = NoSession
    /\ mem = NoAccess /\ dly = NoDelayYet
    /\ g_global_lock = LockFree /\ ioc = NoIoctl /\ objs = NoObjects
    /\ names = NoNames
    /\ pm = NoMonitor
    /\ mmio = [NoBar EXCEPT !.dev = pcie_sim_mmio_init(NoBar.dev)]

MmioWrite ==
    /\ \E offset \in WriteOffsets, value \in WriteValues :
          mmio' = [dev |-> pcie_sim_mmio_write32(mmio.dev, offset, value),
                   last |-> [op |-> "write", offset |-> offset,
                             value |-> value]]
    /\ MmioFrame

MmioDmaDone ==
    /\ \E req \in {"NULL", "req"}, success \in BOOLEAN :
          mmio' = [dev |-> pcie_sim_mmio_update_dma(mmio.dev, req, 10000,
                                                    stats.total_transfers,
                                                    success),
                   last |-> [op |-> "dma", offset |-> 0,
                             value |-> IF success THEN IRQ_DMA_COMPLETE
                                       ELSE IRQ_DMA_ERROR]]
    /\ MmioFrame

NextMmio == MmioWrite \/ MmioDmaDone

SpecMmio == InitMmio /\ [][NextMmio]_vars

\* The step is a call of the named kind.
MmioStep(op) == mmio'.last.op = op /\ mmio' # mmio

\* C37: with BAR0 allocated, pending_interrupts is 1 exactly when the
\* interrupt status register is not zero; a DMA completion sets its status
\* bit and the flag, a write to the interrupt status register clears
\* exactly the bits written and clears the flag only when no bit remains.
C37_PendingIffStatus ==
    [][/\ mmio.dev.bar0_virt =>
             ((mmio.dev.pending_interrupts = 1)
                 <=> (mmio.dev.regs[REG_INTERRUPT_STATUS] # {}))
       /\ mmio'.dev.bar0_virt =>
             ((mmio'.dev.pending_interrupts = 1)
                 <=> (mmio'.dev.regs[REG_INTERRUPT_STATUS] # {}))
       /\ MmioStep("dma") =>
             /\ mmio'.dev.regs[REG_INTERRUPT_STATUS]
                   = mmio.dev.regs[REG_INTERRUPT_STATUS] \cup mmio'.last.value
             /\ mmio'.dev.pending_interrupts = 1
       /\ (MmioStep("write") /\ mmio'.last.offset = REG_INTERRUPT_STATUS) =>
             /\ mmio'.dev.regs[REG_INTERRUPT_STATUS]
                   = mmio.dev.regs[REG_INTERRUPT_STATUS] \ mmio'.last.value
             /\ mmio'.dev.pending_interrupts
                   = IF mmio'.dev.regs[REG_INTERRUPT_STATUS] = {} THEN 0
                     ELSE mmio.dev.pending_interrupts]_vars

\* Both interrupt bits were raised and a write cleared one of them: the
\* other is still set and the flag is still 1.
C37_Witness ==
    /\ mmio.last.op = "write"
    /\ mmio.last.offset = REG_INTERRUPT_STATUS
    /\ mmio.last.value = IRQ_DMA_COMPLETE
    /\ mmio.dev.regs[REG_INTERRUPT_STATUS] = IRQ_DMA_ERROR
    /\ mmio.dev.pending_interrupts = 1

(***************************************************************************)
(* C38: a Device closes the handle it owns exactly once                    *)
(***************************************************************************)
MaxOpens == 3

DeviceObjects == {"a", "b", "c"}

\* pcie_sim_close(handle): one more close of that handle.
pcie_sim_close(os, handle) == [os EXCEPT !.closes[handle] = @ + 1]

\* Device::Device(int device_id): pcie_sim_open stores a new handle in
\* handle_, or fails, and then DeviceError is thrown and no object exists.
Device_ctor(os, this, err) ==
    IF err # PCIE_SIM_SUCCESS THEN os
    ELSE LET h == os.opened + 1
         IN  [os EXCEPT !.opened = h,
                        !.closes = Append(os.closes, 0),
                        !.o[this] = [alive |-> TRUE, handle_ |-> h]]

\* Device::~Device().
Device_dtor(os, this) ==
    LET closed == IF os.o[this].handle_ # nullptr
                  THEN pcie_sim_close(os, os.o[this].handle_) ELSE os
    IN  [closed EXCEPT !.o[this] = [alive |-> FALSE, handle_ |-> nullptr]]

\* Device::Device(Device&& other).
Device_move_ctor(os, this, other) ==
    [os EXCEPT !.o[this] = [alive |-> TRUE, handle_ |-> os.o[other].handle_],
               !.o[other].handle_ = nullptr]

\* Mutant: the move assignment drops the handle it held without a close.
Device_move_assign_leaky(os, this, other) ==
    IF this # other
    THEN [os EXCEPT !.o[this].handle_ = os.o[other].handle_,
                    !.o[other].handle_ = nullptr]
    ELSE os

\* Device& Device::operator=(Device&& other).
Device_move_assign(os, this, other) ==
    IF this # other
    THEN LET closed == IF os.o[this].handle_ # nullptr
                       THEN pcie_sim_close(os, os.o[this].handle_) ELSE os
         IN  [closed EXCEPT !.o[this].handle_ = os.o[other].handle_,
                            !.o[other].handle_ = nullptr]
    ELSE os

ObjFrame ==
    UNCHANGED <<ringVars, statVars, concVars, trio, tstep, devVars, injVars,
                lat, call, rq, vld, logf, mem, dly, g_global_lock, ioc, mmio,
                names, pm>>

InitObjects == RingIdle /\ StatIdle /\ ConcIdle /\ OtherIdle

ObjDone(os, op, this, other) ==
    objs' = [os EXCEPT !.last = [op |-> op, this |-> this, other |-> other]]

Construct(this) ==
    /\ ~objs.o[this].alive
    /\ objs.opened < MaxOpens
    /\ \E err \in {PCIE_SIM_SUCCESS, PCIE_SIM_ERROR_DEVICE} :
          ObjDone(Device_ctor(objs, this, err),
                  IF err = PCIE_SIM_SUCCESS THEN "ctor" ELSE "throw", this, this)
    /\ ObjFrame

MoveConstruct(this, other) ==
    /\ ~objs.o[this].alive
    /\ objs.o[other].alive
    /\ ObjDone(Device_move_ctor(objs, this, other), "move_ctor", this, other)
    /\ ObjFrame

MoveAssign(this, other) ==
    /\ objs.o[this].alive
    /\ objs.o[other].alive
    /\ ObjDone(Device_move_assign(objs, this, other), "move_assign", this, other)
    /\ ObjFrame

Destroy(this) ==
    /\ objs.o[this].alive
    /\ ObjDone(Device_dtor(objs, this), "dtor", this, this)
    /\ ObjFrame

NextObjects ==
    \E this \in DeviceObjects :
       \/ Construct(this)
       \/ Destroy(this)
       \/ \E other \in DeviceObjects :
             MoveConstruct(this, other) \/ MoveAssign(this, other)

SpecObjects == InitObjects /\ [][NextObjects]_vars

\* The live Device objects whose handle_ is h.
Holders(h) ==
    {d \in DeviceObjects : objs.o[d].alive /\ objs.o[d].handle_ = h}

\* C38: a handle that pcie_sim_open returned is held by exactly one live
\* Device until it is closed, is closed at most once, and is held by no
\* Device afterwards, so it has been closed exactly once when every object
\* is destroyed; a Device that was moved into another object holds no
\* handle.
C38_ClosedExactlyOnce ==
    /\ \A h \in 1..objs.opened :
          /\ objs.closes[h] <= 1
          /\ objs.closes[h] = 0 => Cardinality(Holders(h)) = 1
          /\ objs.closes[h] = 1 => Holders(h) = {}
    /\ \A d \in DeviceObjects :
          objs.o[d].handle_ \in {nullptr} \cup (1..objs.opened)
    /\ (objs.last.op \in {"move_ctor", "move_assign"}
        /\ objs.last.this # objs.last.other)
          => objs.o[objs.last.other].handle_ = nullptr

\* Three handles were opened; a move assignment onto an object that held
\* one closed it, the moved-from object is alive and empty, and the moved
\* handle is still open.
C38_Witness ==
    /\ objs.last.op = "move_assign"
    /\ objs.last.this # objs.last.other
    /\ objs.opened = 3
    /\ objs.o[objs.last.other].alive
    /\ objs.o[objs.last.this].handle_ # nullptr
    /\ objs.closes[objs.o[objs.last.this].handle_] = 0
    /\ \E h \in 1..objs.opened : objs.closes[h] = 1

\* Every object was destroyed after moves and every handle is closed once.
C38_WitnessAllClosed ==
    /\ objs.opened = 3
    /\ \A d \in DeviceObjects : ~objs.o[d].alive
    /\ \A h \in 1..objs.opened : objs.closes[h] = 1

(***************************************************************************)
(* C39: pattern and error scenario names survive the round trip            *)
(***************************************************************************)
PCIE_SIM_PATTERN_SMALL_FAST == 0
PCIE_SIM_PATTERN_LARGE_BURST == 1
PCIE_SIM_PATTERN_MIXED == 2
PCIE_SIM_PATTERN_CUSTOM == 3

\* The values of pcie_sim_pattern_t, and those an int can hold besides.
Patterns == PCIE_SIM_PATTERN_SMALL_FAST .. PCIE_SIM_PATTERN_CUSTOM

EnumValues == 0 .. 4

\* Texts a caller passes: the null pointer (written "NULL"), the names, and
\* strings that strcmp tells apart from every name.
SuppliedTexts ==
    {"NULL", "", "small-fast", "large-burst", "mixed", "custom", "Mixed",
     "small_fast", "custom ", "none", "timeout", "corruption", "overrun",
     "Timeout", "unknown"}

\* Mutant: the last comparison of the chain is missing.
pcie_sim_parse_pattern_short(pattern_str) ==
    IF pattern_str = "NULL" THEN PCIE_SIM_PATTERN_MIXED
    ELSE IF pattern_str = "small-fast" THEN PCIE_SIM_PATTERN_SMALL_FAST
    ELSE IF pattern_str = "large-burst" THEN PCIE_SIM_PATTERN_LARGE_BURST
    ELSE PCIE_SIM_PATTERN_MIXED

\* pcie_sim_parse_pattern: strcmp against each name in turn.
pcie_sim_parse_pattern(pattern_str) ==
    IF pattern_str = "NULL" THEN PCIE_SIM_PATTERN_MIXED
    ELSE IF pattern_str = "small-fast" THEN PCIE_SIM_PATTERN_SMALL_FAST
    ELSE IF pattern_str = "large-burst" THEN PCIE_SIM_PATTERN_LARGE_BURST
    ELSE IF pattern_str = "mixed" THEN PCIE_SIM_PATTERN_MIXED
    ELSE IF pattern_str = "custom" THEN PCIE_SIM_PATTERN_CUSTOM
    ELSE PCIE_SIM_PATTERN_MIXED

pcie_sim_parse_error_scenario(error_str) ==
    IF error_str = "NULL" THEN PCIE_SIM_ERROR_SCENARIO_NONE
    ELSE IF error_str = "timeout" THEN PCIE_SIM_ERROR_SCENARIO_TIMEOUT
    ELSE IF error_str = "corruption" THEN PCIE_SIM_ERROR_SCENARIO_CORRUPTION
    ELSE IF error_str = "overrun" THEN PCIE_SIM_ERROR_SCENARIO_OVERRUN
    ELSE IF error_str = "none" THEN PCIE_SIM_ERROR_SCENARIO_NONE
    ELSE PCIE_SIM_ERROR_SCENARIO_NONE

pcie_sim_pattern_to_string(pattern) ==
    CASE pattern = PCIE_SIM_PATTERN_SMALL_FAST -> "small-fast"
      [] pattern = PCIE_SIM_PATTERN_LARGE_BURST -> "large-burst"
      [] pattern = PCIE_SIM_PATTERN_MIXED -> "mixed"
      [] pattern = PCIE_SIM_PATTERN_CUSTOM -> "custom"
      [] OTHER -> "unknown"

NamesFrame ==
    UNCHANGED <<ringVars, statVars, concVars, trio, tstep, devVars, injVars,
                lat, call, rq, vld, logf, mem, dly, g_global_lock, ioc, mmio,
                objs, pm>>

InitNames == RingIdle /\ StatIdle /\ ConcIdle /\ OtherIdle

\* A pattern value is turned into its name.
PatternToString ==
    /\ \E p \in EnumValues :
          names' = [names EXCEPT !.pattern =
                       [origin |-> p, text |-> pcie_sim_pattern_to_string(p),
                        parsed |-> -1, done |-> FALSE]]
    /\ NamesFrame

\* The caller supplies a text of its own.
PatternSupplied ==
    /\ \E s \in SuppliedTexts :
          names' = [names EXCEPT !.pattern =
                       [origin |-> -1, text |-> s, parsed |-> -1,
                        done |-> FALSE]]
    /\ NamesFrame

PatternParse ==
    /\ ~names.pattern.done
    /\ names' = [names EXCEPT
                    !.pattern.parsed = pcie_sim_parse_pattern(names.pattern.text),
                    !.pattern.done = TRUE]
    /\ NamesFrame

ScenarioToString ==
    /\ \E sc \in EnumValues :
          names' = [names EXCEPT !.scenario =
                       [origin |-> sc,
                        text |-> pcie_sim_error_scenario_to_string(sc),
                        parsed |-> -1, done |-> FALSE]]
    /\ NamesFrame

ScenarioSupplied ==
    /\ \E s \in SuppliedTexts :
          names' = [names EXCEPT !.scenario =
                       [origin |-> -1, text |-> s, parsed |-> -1,
                        done |-> FALSE]]
    /\ NamesFrame

ScenarioParse ==
    /\ ~names.scenario.done
    /\ names' = [names EXCEPT
                    !.scenario.parsed =
                        pcie_sim_parse_error_scenario(names.scenario.text),
                    !.scenario.done = TRUE]
    /\ NamesFrame

NextNames ==
    \/ PatternToString \/ PatternSupplied \/ PatternParse
    \/ ScenarioToString \/ ScenarioSupplied \/ ScenarioParse

SpecNames == InitNames /\ [][NextNames]_vars

PatternNames == {"small-fast", "large-burst", "mixed", "custom"}

ScenarioNames == {"none", "timeout", "corruption", "overrun"}

\* C39: the name of each of the four patterns parses back to that pattern
\* and the name of each of the four error scenarios to that scenario; the
\* null pointer and every text that is not a name parse to mixed and to
\* none.
C39_NamesRoundTrip ==
    /\ (names.pattern.done /\ names.pattern.origin \in Patterns)
          => names.pattern.parsed = names.pattern.origin
    /\ (names.scenario.done /\ names.scenario.origin \in Scenarios)
          => names.scenario.parsed = names.scenario.origin
    /\ (names.pattern.done /\ names.pattern.text \notin PatternNames)
          => names.pattern.parsed = PCIE_SIM_PATTERN_MIXED
    /\ (names.scenario.done /\ names.scenario.text \notin ScenarioNames)
          => names.scenario.parsed = PCIE_SIM_ERROR_SCENARIO_NONE

\* The name of custom was parsed back to custom and the name of overrun to
\* overrun.
C39_Witness ==
    /\ names.pattern.done /\ names.pattern.origin = PCIE_SIM_PATTERN_CUSTOM
    /\ names.pattern.parsed = PCIE_SIM_PATTERN_CUSTOM
    /\ names.scenario.done
    /\ names.scenario.origin = PCIE_SIM_ERROR_SCENARIO_OVERRUN
    /\ names.scenario.parsed = PCIE_SIM_ERROR_SCENARIO_OVERRUN

\* A text that differs from a name only in case parsed to the default, and
\* so did the null pointer.
C39_WitnessDefault ==
    /\ names.pattern.done /\ names.pattern.text = "Mixed"
    /\ names.pattern.origin = -1
    /\ names.scenario.done /\ names.scenario.text = "NULL"
    /\ names.scenario.parsed = PCIE_SIM_ERROR_SCENARIO_NONE

(***************************************************************************)
(* C40: start and stop of the PerformanceMonitor thread                    *)
(***************************************************************************)
MaxMonitorCalls == 3

MonFrame ==
    UNCHANGED <<ringVars, statVars, concVars, trio, tstep, devVars, injVars,
                lat, call, rq, vld, logf, mem, dly, g_global_lock, ioc, mmio,
                objs, names>>

InitMonitor == RingIdle /\ StatIdle /\ ConcIdle /\ OtherIdle

\* The threads that were created and have not left their lambda.
LiveThreads == {i \in DOMAIN pm.threads : pm.threads[i].pc # "exited"}

\* The owner calls start_monitoring(interval, callback), which begins with
\* stop_monitoring().
StartCall ==
    /\ pm.owner.pc = "idle"
    /\ ~pm.destroyed /\ ~pm.terminated
    /\ pm.owner.calls < MaxMonitorCalls
    /\ \E callback \in {"nullptr", "callback"} :
          pm' = [pm EXCEPT !.owner = [pc |-> "stop_check", in |-> "start",
                                      calls |-> pm.owner.calls + 1],
                           !.callback = callback]
    /\ MonFrame

\* The owner calls stop_monitoring().
StopCall ==
    /\ pm.owner.pc = "idle"
    /\ ~pm.destroyed /\ ~pm.terminated
    /\ pm.owner.calls < MaxMonitorCalls
    /\ pm' = [pm EXCEPT !.owner = [pc |-> "stop_check", in |-> "stop",
                                   calls |-> pm.owner.calls + 1]]
    /\ MonFrame

\* ~PerformanceMonitor() calls stop_monitoring().
DtorCall ==
    /\ pm.owner.pc = "idle"
    /\ ~pm.destroyed /\ ~pm.terminated
    /\ pm' = [pm EXCEPT !.owner.pc = "stop_check", !.owner.in = "dtor"]
    /\ MonFrame

\* stop_monitoring: if (monitoring_) monitoring_ = false.
StopCheck ==
    /\ pm.owner.pc = "stop_check"
    /\ pm' = IF pm.monitoring_
             THEN [pm EXCEPT !.monitoring_ = FALSE, !.owner.pc = "join"]
             ELSE [pm EXCEPT !.owner.pc = "stop_return"]
    /\ MonFrame

\* Mutant: the thread is let go instead of joined.
StopJoin_detach ==
    /\ pm.owner.pc = "join"
    /\ pm' = [pm EXCEPT !.monitor_thread_ = 0, !.owner.pc = "stop_return"]
    /\ MonFrame

\* if (monitor_thread_.joinable()) monitor_thread_.join(): join returns
\* once the thread has left its lambda.
StopJoin ==
    /\ pm.owner.pc = "join"
    /\ IF pm.monitor_thread_ # 0
       THEN /\ pm.threads[pm.monitor_thread_].pc = "exited"
            /\ pm' = [pm EXCEPT !.monitor_thread_ = 0,
                                !.owner.pc = "stop_return"]
       ELSE pm' = [pm EXCEPT !.owner.pc = "stop_return"]
    /\ MonFrame

\* stop_monitoring returns: to its caller, into start_monitoring, or into
\* the destructor, after which the object is gone.
StopReturn ==
    /\ pm.owner.pc = "stop_return"
    /\ pm' = IF pm.owner.in = "start"
             THEN [pm EXCEPT !.owner.pc = "set_flag"]
             ELSE [pm EXCEPT !.owner.pc = "idle", !.owner.in = "none",
                             !.quiet = TRUE,
                             !.destroyed = (pm.owner.in = "dtor")]
    /\ MonFrame

\* start_monitoring: monitoring_ = true.
StartSetFlag ==
    /\ pm.owner.pc = "set_flag"
    /\ pm' = [pm EXCEPT !.monitoring_ = TRUE, !.quiet = FALSE,
                        !.owner.pc = "spawn"]
    /\ MonFrame

\* start_monitoring: monitor_thread_ = std::thread(...).  Assigning to a
\* thread object that is still joinable calls std::terminate.
StartSpawn ==
    /\ pm.owner.pc = "spawn"
    /\ pm' = IF pm.monitor_thread_ # 0
             THEN [pm EXCEPT !.terminated = TRUE, !.owner.pc = "idle",
                             !.owner.in = "none"]
             ELSE [pm EXCEPT
                      !.threads = Append(pm.threads,
                                         [pc |-> "check",
                                          callback |-> pm.callback]),
                      !.monitor_thread_ = Len(pm.threads) + 1,
                      !.owner.pc = "idle", !.owner.in = "none"]
    /\ MonFrame

\* The lambda of thread i: while (monitoring_).
ThreadCheck(i) ==
    /\ pm.threads[i].pc = "check"
    /\ pm' = [pm EXCEPT !.threads[i].pc =
                 IF pm.monitoring_ THEN "metrics" ELSE "exited"]
    /\ MonFrame

\* auto metrics = get_current_metrics().
ThreadMetrics(i) ==
    /\ pm.threads[i].pc = "metrics"
    /\ pm' = [pm EXCEPT !.threads[i].pc = "report"]
    /\ MonFrame

\* callback(metrics), or the printed report when no callback was given;
\* the call returns.
ThreadReport(i) ==
    /\ pm.threads[i].pc = "report"
    /\ pm' = [pm EXCEPT !.threads[i].pc = "sleep",
                        !.late = pm.late \/ pm.quiet]
    /\ MonFrame

\* std::this_thread::sleep_for(interval) is over.
ThreadSleep(i) ==
    /\ pm.threads[i].pc = "sleep"
    /\ pm' = [pm EXCEPT !.threads[i].pc = "check"]
    /\ MonFrame

ThreadStep ==
    /\ ~pm.terminated
    /\ \E i \in DOMAIN pm.threads :
          ThreadCheck(i) \/ ThreadMetrics(i) \/ ThreadReport(i)
          \/ ThreadSleep(i)

\* The steps of the owner inside stop_monitoring.
StopStep == StopCheck \/ StopJoin \/ StopReturn

NextMonitor ==
    \/ StartCall \/ StopCall \/ DtorCall
    \/ StopStep
    \/ StartSetFlag \/ StartSpawn
    \/ ThreadStep

SpecMonitor == InitMonitor /\ [][NextMonitor]_vars

\* The monitor thread is scheduled, its callback and its sleep return, and
\* the owner goes on inside stop_monitoring whenever it can.
SpecMonitorLive ==
    /\ SpecMonitor
    /\ WF_vars(ThreadStep)
    /\ WF_vars(StopStep)

InStop == pm.owner.pc \in {"stop_check", "join", "stop_return"}

\* C40: at most one monitor thread exists at any time; when
\* stop_monitoring returns, and from then until the next start, every
\* thread has terminated and no callback is invoked; the thread object is
\* never assigned while joinable; and every call of stop_monitoring
\* returns.
C40_StopJoinsThread ==
    /\ [](/\ Cardinality(LiveThreads) <= 1
          /\ (pm.quiet \/ pm.owner.pc = "stop_return") => LiveThreads = {}
          /\ ~pm.late
          /\ ~pm.terminated)
    /\ (InStop ~> ~InStop)

\* A second monitoring thread was started with a callback after the first
\* was stopped while it slept, and a stop has now joined the second one.
C40_Witness ==
    /\ Len(pm.threads) = 2
    /\ pm.threads[1].pc = "exited" /\ pm.threads[2].pc = "exited"
    /\ pm.threads[2].callback = "callback"
    /\ pm.owner.pc = "idle"
    /\ pm.owner.calls = 3
    /\ pm.quiet
    /\ ~pm.monitoring_

====
